---- MODULE Spec2Model ----
(***************************************************************************)
(* A model of the brainfuck crate: the bytecode compiler (compiler.rs),    *)
(* the source interpreter (interpreter.rs) and the virtual machine        *)
(* (virtual_machine.rs).                                                   *)
(*                                                                         *)
(* Conventions.  Indices are 0-based as in the Rust code; the TLA+         *)
(* sequence element of index k is written s[k + 1].  Source bytes are      *)
(* their ASCII values.  A usize is written as the integer of smallest      *)
(* absolute value congruent to it modulo 2^64, so that 2^64 - k is -k:     *)
(* wrapping addition and subtraction are then plain + and -, and a usize   *)
(* is a valid index of a slice of length n iff 0 <= it < n.                *)
(***************************************************************************)
EXTENDS Integers, Sequences, FiniteSets, TLC

\* ------------------------------------------------------------- syntax.rs

IDENT_INC_DP == 62
IDENT_DEC_DP == 60
IDENT_INC_DATA == 43
IDENT_DEC_DATA == 45
IDENT_WRITE_BYTE == 46
IDENT_READ_BYTE == 44
IDENT_JUMP_ZERO == 91
IDENT_JUMP_NOT_ZERO == 93

IDENTS ==
  { IDENT_INC_DP, IDENT_DEC_DP, IDENT_INC_DATA, IDENT_DEC_DATA,
    IDENT_WRITE_BYTE, IDENT_READ_BYTE, IDENT_JUMP_ZERO, IDENT_JUMP_NOT_ZERO }

\* ------------------------------------------------------------- bounds

\* Longest source enumerated for the compiler.
MaxSrcLen == 4
\* Number of iteration orders of the IDENTS hash set that are tried.
NumOrders == 2

\* The order in which the idents were inserted into the hash set.
InsertionOrder ==
  << IDENT_INC_DP, IDENT_DEC_DP, IDENT_INC_DATA, IDENT_DEC_DATA,
     IDENT_WRITE_BYTE, IDENT_READ_BYTE, IDENT_JUMP_ZERO, IDENT_JUMP_NOT_ZERO >>

\* IDENTS.iter(): a hash set iterates in an order the program does not
\* choose.  The k-th order tried: the insertion order rotated by k, and
\* reversed when k is odd.
IterOrder(k) ==
  [ j \in 1..8 |->
      IF k % 2 = 0
        THEN InsertionOrder[((j - 1 + k) % 8) + 1]
        ELSE InsertionOrder[((8 - j + k) % 8) + 1] ]

Orders == { IterOrder(k) : k \in 0..(NumOrders - 1) }

\* All sequences over S of length at most n.
SeqsUpTo(S, n) == UNION { [1..m -> S] : m \in 0..n }

\* Sources: the eight opcode bytes and one comment byte ('x').
SrcAlphabet == IDENTS \cup {120}

\* ------------------------------------------------------------- compiler.rs

\* enum Instruction
IncDP(n) == [op |-> "IncDP", n |-> n]
DecDP(n) == [op |-> "DecDP", n |-> n]
IncByteAtDP(n) == [op |-> "IncByteAtDP", n |-> n]
DecByteAtDP(n) == [op |-> "DecByteAtDP", n |-> n]
WriteByte(n) == [op |-> "WriteByte", n |-> n]
ReadByte == [op |-> "ReadByte"]
JumpZero(n) == [op |-> "JumpZero", n |-> n]
JumpZeroPlaceholder == [op |-> "JumpZeroPlaceholder"]
JumpNotZero(n) == [op |-> "JumpNotZero", n |-> n]
JumpNotZeroPlaceholder == [op |-> "JumpNotZeroPlaceholder"]

\* The `match instruction` of push_instruction: the instruction pushed for
\* `args` occurrences of the ident.
MakeInstruction(instruction, args) ==
  CASE instruction = IDENT_INC_DP -> IncDP(args)
    [] instruction = IDENT_DEC_DP -> DecDP(args)
    [] instruction = IDENT_INC_DATA -> IncByteAtDP(args)
    [] instruction = IDENT_DEC_DATA -> DecByteAtDP(args)
    [] instruction = IDENT_WRITE_BYTE -> WriteByte(args)
    [] instruction = IDENT_READ_BYTE -> ReadByte
    [] instruction = IDENT_JUMP_ZERO -> JumpZeroPlaceholder
    [] instruction = IDENT_JUMP_NOT_ZERO -> JumpNotZeroPlaceholder

\* The idents after which the while loop of push_instruction breaks.
NotFoldedMutant == {IDENT_JUMP_ZERO, IDENT_JUMP_NOT_ZERO, IDENT_READ_BYTE}

NotFolded == {IDENT_JUMP_ZERO, IDENT_JUMP_NOT_ZERO}

PushBodyNoBreakMutant(code, instruction, s) ==
  IF s.done \/ s.i >= Len(code) THEN [s EXCEPT !.done = TRUE]
  ELSE IF code[s.i + 1] # instruction /\ code[s.i + 1] \notin IDENTS
    THEN [s EXCEPT !.i = s.i + 1]
  ELSE [i |-> s.i + 1, args |-> s.args + 1, done |-> instruction \in NotFolded]

PushBodyMutant(code, instruction, s) ==
  IF s.done \/ s.i >= Len(code) THEN [s EXCEPT !.done = TRUE]
  ELSE IF code[s.i + 1] # instruction /\ code[s.i + 1] \notin IDENTS
    THEN IF s.args > 0 THEN [s EXCEPT !.done = TRUE] ELSE [s EXCEPT !.i = s.i + 1]
  ELSE IF code[s.i + 1] # instruction /\ code[s.i + 1] \in IDENTS
    THEN [s EXCEPT !.done = TRUE]
  ELSE [i |-> s.i + 1, args |-> s.args + 1,
        done |-> instruction \in {IDENT_JUMP_ZERO, IDENT_JUMP_NOT_ZERO}]

\* One iteration of the while loop of push_instruction.  s.i and s.args are
\* *i and args; s.done says that the loop was left.
PushBody(code, instruction, s) ==
  IF s.done \/ s.i >= Len(code) THEN [s EXCEPT !.done = TRUE]
  ELSE IF code[s.i + 1] # instruction /\ code[s.i + 1] \notin IDENTS
    THEN [s EXCEPT !.i = s.i + 1]
  ELSE IF code[s.i + 1] # instruction /\ code[s.i + 1] \in IDENTS
    THEN [s EXCEPT !.done = TRUE]
  ELSE [i |-> s.i + 1, args |-> s.args + 1, done |-> instruction \in NotFolded]

\* The first n iterations of the while loop of push_instruction.
RECURSIVE PushLoop(_, _, _, _)
PushLoop(code, instruction, s, n) ==
  IF s.done \/ n = 0 THEN s
  ELSE IF n = 1 THEN PushBody(code, instruction, s)
  ELSE PushLoop(code, instruction,
                PushLoop(code, instruction, s, n \div 2), n - (n \div 2))

\* The while loop of push_instruction from index i: it is left after at
\* most Len(code) - i iterations and the test that ends it.
PushScan(code, i, instruction) ==
  PushLoop(code, instruction, [i |-> i, args |-> 0, done |-> FALSE],
           Len(code) - i + 1)

PushInstructionMutant(code, i, instruction, instructions) ==
  LET r == PushScan(code, i, instruction)
  IN [ i |-> r.i,
       instructions |->
         IF r.args > 0
           THEN Append(instructions, MakeInstruction(instruction, r.i - i))
           ELSE instructions ]

\* Compiler::push_instruction: the new index and instruction vector.
PushInstruction(code, i, instruction, instructions) ==
  LET r == PushScan(code, i, instruction)
  IN [ i |-> r.i,
       instructions |->
         IF r.args > 0
           THEN Append(instructions, MakeInstruction(instruction, r.args))
           ELSE instructions ]

\* The `for ident in IDENTS.iter()` loop, from the k-th ident of the order.
RECURSIVE ForIdents(_, _, _, _)
ForIdents(code, order, k, st) ==
  IF k > Len(order) THEN st
  ELSE ForIdents(code, order, k + 1,
                 PushInstruction(code, st.i, order[k], st.instructions))

\* One iteration of the first while loop of compile.
FoldRound(code, order, st) ==
  LET r == ForIdents(code, order, 1, st)
  IN IF r.i = st.i THEN [r EXCEPT !.i = r.i + 1] ELSE r

\* The inner `loop` of the second while loop: the index j it breaks at.
RECURSIVE MatchScan(_, _, _)
MatchScan(instructions, j, jumps) ==
  IF j = Len(instructions) THEN j
  ELSE LET jumps2 ==
             IF instructions[j + 1] = JumpZeroPlaceholder THEN jumps + 1
             ELSE IF instructions[j + 1] = JumpNotZeroPlaceholder THEN jumps - 1
             ELSE jumps
       IN IF jumps2 = 0 THEN j ELSE MatchScan(instructions, j + 1, jumps2)

ForwardOffsetMutant(instructions, i) == MatchScan(instructions, i, 0) - i

\* The offset given to the JumpZero at index i.
ForwardOffset(instructions, i) == MatchScan(instructions, i, 0) - i + 1

\* One iteration of the second while loop of compile (without its i += 1).
LinkForward(instructions, i) ==
  IF instructions[i + 1] = JumpZeroPlaceholder
    THEN [instructions EXCEPT ![i + 1] = JumpZero(ForwardOffset(instructions, i))]
    ELSE instructions

\* Whether the third while loop panics at index i: the index of the matching
\* jump is out of bounds, or the assert_eq! fails.
BackwardPanicsMutant(instructions, i) ==
  /\ instructions[i + 1].op = "JumpZero"
  /\ i + instructions[i + 1].n - 1 < Len(instructions)
  /\ instructions[i + instructions[i + 1].n] # JumpNotZeroPlaceholder

BackwardPanics(instructions, i) ==
  /\ instructions[i + 1].op = "JumpZero"
  /\ LET matching_jump == i + instructions[i + 1].n - 1
     IN IF matching_jump >= Len(instructions)
          THEN TRUE
          ELSE instructions[matching_jump + 1] # JumpNotZeroPlaceholder

BackwardOffsetMutant(matching_jump, i) == matching_jump - i

BackwardOffsetShortMutant(matching_jump, i) == matching_jump - i - 2

\* The offset given to the JumpNotZero at index matching_jump whose JumpZero
\* is at index i.
BackwardOffset(matching_jump, i) == matching_jump - i - 1

\* One iteration of the third while loop of compile (without its i += 1),
\* where it does not panic.
LinkBackward(instructions, i) ==
  IF instructions[i + 1].op = "JumpZero"
    THEN LET matching_jump == i + instructions[i + 1].n - 1
         IN [instructions EXCEPT
               ![matching_jump + 1] = JumpNotZero(BackwardOffset(matching_jump, i))]
    ELSE instructions

\* The three loops of Compiler::compile, run to their end.
RECURSIVE FoldAll(_, _, _)
FoldAll(code, order, st) ==
  IF st.i < Len(code) THEN FoldAll(code, order, FoldRound(code, order, st))
  ELSE st.instructions

RECURSIVE LinkForwardAll(_, _)
LinkForwardAll(instructions, i) ==
  IF i < Len(instructions)
    THEN LinkForwardAll(LinkForward(instructions, i), i + 1)
    ELSE instructions

RECURSIVE LinkBackwardAll(_, _)
LinkBackwardAll(instructions, i) ==
  IF i < Len(instructions)
    THEN IF BackwardPanics(instructions, i)
           THEN [panicked |-> TRUE, instructions |-> instructions]
           ELSE LinkBackwardAll(LinkBackward(instructions, i), i + 1)
    ELSE [panicked |-> FALSE, instructions |-> instructions]

\* Compiler::new(code).compile(): whether it panicked, and the vector it
\* returns when it did not.
Compile(code, order) ==
  LinkBackwardAll(
    LinkForwardAll(FoldAll(code, order, [i |-> 0, instructions |-> << >>]), 0), 0)

\* ------------------------------------------------------------- jit.rs: machine code

\* n as u8
AsU8(n) == n % 256

\* b repeated n times.
Repeat(b, n) == SubSeq([k \in 1..n |-> b], 1, n)

\* to_le_bytes of an integer of w bytes, in two's complement.  The values
\* of the model are within the range of an i32, so the bytes past the
\* fourth are the sign.
LeBytes(v, w) ==
  [ k \in 1..w |->
      IF k <= 4 THEN (v \div (256 ^ (k - 1))) % 256
      ELSE IF v < 0 THEN 255 ELSE 0 ]

\* struct MachineCode: the bytes emitted so far and whether writing is
\* suspended (measurement mode).
NewMachineCode == [ buf |-> << >>, suspend_write |-> FALSE ]

\* MachineCode::write: the bytes are appended unless writing is suspended;
\* their number is returned in either case.
Write(mc, bytes) ==
  [ mc |-> IF mc.suspend_write THEN mc ELSE [mc EXCEPT !.buf = mc.buf \o bytes],
    len |-> Len(bytes) ]

GetOnlyLenMutant(mc, bytes) == Write([mc EXCEPT !.suspend_write = TRUE], bytes)

\* MachineCode::get_only_len with a closure that calls the emitter of these
\* bytes: writing is suspended, the emitter runs, writing is resumed.
GetOnlyLen(mc, bytes) ==
  LET r == Write([mc EXCEPT !.suspend_write = TRUE], bytes)
  IN [ mc |-> [r.mc EXCEPT !.suspend_write = FALSE], len |-> r.len ]

\* The bytes of the emitters below are what they hand to MachineCode::write
\* (emit_write_byte_at_dp in n calls); an emitter returns what write returns.

\* MachineCode::emit_stack_setup: push rbp; push r12; mov r12,<data_start>;
\* mov rbp,rsp
EmitStackSetup(data_start) ==
  << 85, 65, 84, 73, 188 >> \o LeBytes(data_start, 8) \o << 72, 137, 229 >>

\* MachineCode::emit_stack_teardown: mov rsp,rbp; pop r12; pop rbp; ret
EmitStackTeardown == << 72, 137, 236, 65, 92, 93, 195 >>

\* MachineCode::emit_inc_dp: inc r12 / add r12,<n> with `n as u8`
EmitIncDp(n) ==
  LET m == AsU8(n)
  IN IF m = 1 THEN << 73, 255, 196 >>
     ELSE IF m \in 2..127 THEN << 73, 131, 196, m >>
     ELSE IF m \in 128..255 THEN << 73, 129, 196, m, 0, 0, 0 >>
     ELSE << >>

\* MachineCode::emit_dec_dp: dec r12 / sub r12,<n> with `n as u8`
EmitDecDp(n) ==
  LET m == AsU8(n)
  IN IF m = 1 THEN << 73, 255, 204 >>
     ELSE IF m \in 2..127 THEN << 73, 131, 236, m >>
     ELSE IF m \in 128..255 THEN << 73, 129, 236, m, 0, 0, 0 >>
     ELSE << >>

\* MachineCode::emit_inc_byte_at_dp: inc / add BYTE PTR [r12],<n>
EmitIncByteAtDp(n) ==
  LET m == AsU8(n)
  IN IF m = 1 THEN << 65, 254, 4, 36 >>
     ELSE IF m \in 2..255 THEN << 65, 128, 4, 36, m >>
     ELSE << >>

\* MachineCode::emit_dec_byte_at_dp: dec / sub BYTE PTR [r12],<n>
EmitDecByteAtDp(n) ==
  LET m == AsU8(n)
  IN IF m = 1 THEN << 65, 254, 12, 36 >>
     ELSE IF m \in 2..255 THEN << 65, 128, 44, 36, m >>
     ELSE << >>

\* mov eax,0x1; mov edi,0x1; mov rsi,r12; mov edx,0x1; syscall
WriteSyscall ==
  << 184, 1, 0, 0, 0, 191, 1, 0, 0, 0, 76, 137, 230, 186, 1, 0, 0, 0, 15, 5 >>

\* MachineCode::emit_write_byte_at_dp: the write syscall, n times.
RECURSIVE EmitWriteByteAtDp(_)
EmitWriteByteAtDp(n) ==
  IF n = 0 THEN << >> ELSE WriteSyscall \o EmitWriteByteAtDp(n - 1)

\* MachineCode::emit_read_byte_at_dp: mov eax,0x0; mov edi,0x0;
\* mov rsi,r12; mov edx,0x1; syscall
EmitReadByteAtDp ==
  << 184, 0, 0, 0, 0, 191, 0, 0, 0, 0, 76, 137, 230, 186, 1, 0, 0, 0, 15, 5 >>

\* cmp BYTE PTR [r12],0x0 and the two opcode bytes of je / jne
CmpJe == << 65, 128, 60, 36, 0, 15, 132 >>
CmpJne == << 65, 128, 60, 36, 0, 15, 133 >>

\* MachineCode::emit_jump_zero: cmp BYTE PTR [r12],0x0; je <skip_bytes>
EmitJumpZero(skip_bytes) == CmpJe \o LeBytes(skip_bytes, 4)

EmitJumpNotZeroMutant(skip_bytes) == CmpJne \o LeBytes(0 - skip_bytes, 4)

\* MachineCode::emit_jump_not_zero: cmp BYTE PTR [r12],0x0; jne back over
\* skip_bytes and over the 11 bytes of this instruction itself.
EmitJumpNotZero(skip_bytes) == CmpJne \o LeBytes(0 - (skip_bytes + 11), 4)

\* The `match instruction` of get_instruction_bytes: the bytes of the
\* emitter its closure calls, a jump with the displacement 0.
MeasuredBytes(instruction) ==
  CASE instruction.op = "IncDP" -> EmitIncDp(instruction.n)
    [] instruction.op = "DecDP" -> EmitDecDp(instruction.n)
    [] instruction.op = "IncByteAtDP" -> EmitIncByteAtDp(instruction.n)
    [] instruction.op = "DecByteAtDP" -> EmitDecByteAtDp(instruction.n)
    [] instruction.op = "WriteByte" -> EmitWriteByteAtDp(instruction.n)
    [] instruction.op = "ReadByte" -> EmitReadByteAtDp
    [] instruction.op = "JumpZero" -> EmitJumpZero(0)
    [] instruction.op = "JumpNotZero" -> EmitJumpNotZero(0)

\* JitCompiler::get_instruction_bytes: the machine code after it and the
\* length it returns.
GetInstructionBytes(mc, instruction) == GetOnlyLen(mc, MeasuredBytes(instruction))

\* The sum of get_instruction_bytes over instructions[from..to]: the
\* machine code after it and the sum.
RECURSIVE SumInstructionBytes(_, _, _, _)
SumInstructionBytes(mc, instructions, from, to) ==
  IF from >= to THEN [mc |-> mc, len |-> 0]
  ELSE LET g == GetInstructionBytes(mc, instructions[from + 1])
           r == SumInstructionBytes(g.mc, instructions, from + 1, to)
       IN [mc |-> r.mc, len |-> g.len + r.len]

IsPlaceholder(instruction) ==
  instruction.op \in {"JumpZeroPlaceholder", "JumpNotZeroPlaceholder"}

JitEmitPanicsMutant(instructions, i) ==
  LET x == instructions[i + 1]
  IN IF x.op = "JumpZero"
       THEN IF x.n < 2 \/ i + x.n - 1 >= Len(instructions) THEN TRUE
            ELSE \/ instructions[i + x.n] # JumpNotZero(x.n - 1)
                 \/ \E k \in (i + 2)..(i + x.n) : IsPlaceholder(instructions[k])
     ELSE IF x.op = "JumpNotZero"
       THEN IF i - x.n - 1 < 0 THEN TRUE
            ELSE \/ instructions[i - x.n] # JumpZero(x.n + 2)
                 \/ \E k \in (i - x.n + 1)..i : IsPlaceholder(instructions[k])
     ELSE IsPlaceholder(x)

\* Whether the body of the for loop of JitCompiler::execute panics at index
\* i: an assert_eq! fails or its index is out of bounds (a usize that
\* underflows panics in a build with overflow checks and is out of bounds in
\* one without), or a placeholder reaches unreachable!().
JitEmitPanics(instructions, i) ==
  LET x == instructions[i + 1]
  IN IF x.op = "JumpZero"
       THEN IF x.n < 2 \/ i + x.n - 1 >= Len(instructions) THEN TRUE
            ELSE \/ instructions[i + x.n] # JumpNotZero(x.n - 2)
                 \/ \E k \in (i + 2)..(i + x.n) : IsPlaceholder(instructions[k])
     ELSE IF x.op = "JumpNotZero"
       THEN IF i - x.n - 1 < 0 THEN TRUE
            ELSE \/ instructions[i - x.n] # JumpZero(x.n + 2)
                 \/ \E k \in (i - x.n + 1)..i : IsPlaceholder(instructions[k])
     ELSE IsPlaceholder(x)

\* The body of the for loop of JitCompiler::execute at index i, where it
\* does not panic: the machine code after it.
\* (`offset as i32` keeps the offsets of the model: they are far below 2^31.)
JitEmitInstruction(mc, instructions, i) ==
  LET x == instructions[i + 1]
  IN CASE x.op = "IncDP" -> Write(mc, EmitIncDp(x.n)).mc
       [] x.op = "DecDP" -> Write(mc, EmitDecDp(x.n)).mc
       [] x.op = "IncByteAtDP" -> Write(mc, EmitIncByteAtDp(x.n)).mc
       [] x.op = "DecByteAtDP" -> Write(mc, EmitDecByteAtDp(x.n)).mc
       [] x.op = "WriteByte" -> Write(mc, EmitWriteByteAtDp(x.n)).mc
       [] x.op = "ReadByte" -> Write(mc, EmitReadByteAtDp).mc
       [] x.op = "JumpZero" ->
            LET offset == SumInstructionBytes(mc, instructions, i + 1, i + x.n)
            IN Write(offset.mc, EmitJumpZero(offset.len)).mc
       [] x.op = "JumpNotZero" ->
            LET offset == SumInstructionBytes(mc, instructions, i - x.n, i)
            IN Write(offset.mc, EmitJumpNotZero(offset.len)).mc

\* ------------------------------------------------------------- lib.rs

\* enum FlushBehavior
FlushBehaviors == {"Disabled", "OnWrite", "OnEnd"}

\* ------------------------------------------------------------- state

\* interpreter.rs 10, virtual_machine.rs 6
DATA_SIZE == 30000

VARIABLES
  code,            \* Compiler.code / Interpreter.code: the source bytes
  order,           \* the iteration order of IDENTS in this process
  cpc,             \* where compile is: "fold", "link_forward",
                   \* "link_backward", "returned", "panicked"
  ci,              \* compile's local i
  instructions,    \* compile's local instructions, then VirtualMachine.instructions
  input,           \* the bytes the reader of a run yields
  flush,           \* the FlushBehavior passed to execute
  overflow_checks, \* whether the build panics on integer overflow (debug
                   \* profile) or wraps (release profile)
  interpreter,     \* the Interpreter with its reader and writer
  vm,              \* the VirtualMachine with its reader and writer
  jit,             \* the JitCompiler, its memory map and its native routine
  sink,            \* what the writer of a run is connected to: the number
                   \* of calls (write_all, flush) it takes before every
                   \* further call returns an error, or NoFail
  budget           \* the number of loop iterations of execute a run is
                   \* followed for

\* A machine (Interpreter or VirtualMachine) is a record of
\*   ip, dp   the fields of these names,
\*   data     the field `data`, as the function from the indices of its
\*            non-zero cells to their values (every other cell holds 0),
\*   reader   the number of bytes of `input` the reader has yielded,
\*   writer   the bytes written to the writer,
\*   flushes  the number of calls of writer.flush(),
\*   flushed  the number of bytes of `writer` the last flush pushed out
\*            (the length of `writer` at that call),
\*   status   "running" inside execute, "returned_ok", "returned_err" or
\*            "panicked" after it,
\*   steps    the number of iterations of the loop of execute so far.

\* What compile leaves alone.
rvars == << input, flush, overflow_checks, interpreter, vm, jit, sink, budget >>

vars ==
  << code, order, cpc, ci, instructions, input, flush, overflow_checks,
     interpreter, vm, jit, sink, budget >>

\* Interpreter::new / VirtualMachine::new
NewMachine ==
  [ ip |-> 0, dp |-> 0, data |-> << >>, reader |-> 0, writer |-> << >>,
    flushes |-> 0, flushed |-> 0, status |-> "running", steps |-> 0 ]

\* data[dp]
Cell(data, dp) == IF dp \in DOMAIN data THEN data[dp] ELSE 0

StoreMutant(data, dp, v) ==
  [ k \in (DOMAIN data \ {dp + 1}) \cup (IF v = 0 THEN {} ELSE {dp + 1}) |->
      IF k = dp + 1 THEN v ELSE data[k] ]

\* data[dp] = v
Store(data, dp, v) ==
  [ k \in (DOMAIN data \ {dp}) \cup (IF v = 0 THEN {} ELSE {dp}) |->
      IF k = dp THEN v ELSE data[k] ]

\* Whether data[dp], or the slice data[dp..dp + 1], panics: the index is
\* out of bounds (a wrapped dp is 2^64 - k, and dp + 1 either overflows or
\* wraps to an end before the start).
IndexPanics(dp) == dp < 0 \/ dp >= DATA_SIZE

\* Whether the usize a + n overflows / the usize a - n underflows.
AddOverflows(a, n) == a < 0 /\ a + n >= 0
SubOverflows(a, n) == a >= 0 /\ a - n < 0

WrappingAddMutant(c, m) == IF c + m > 255 THEN 255 ELSE c + m

\* u8::wrapping_add, u8::wrapping_sub
WrappingAdd(c, m) == (c + m) % 256
WrappingSub(c, m) == (c + 256 - m) % 256

Panicked(m) == [m EXCEPT !.status = "panicked"]

\* The end of an iteration of the loop of execute: ip += 1.
Advance(m) == [m EXCEPT !.ip = m.ip + 1, !.steps = m.steps + 1]

\* `self.dp += n; assert!(self.dp < DATA_SIZE)` and what follows it.
DoIncDP(m, n) ==
  IF overflow_checks /\ AddOverflows(m.dp, n) THEN Panicked(m)
  ELSE IF IndexPanics(m.dp + n) THEN Panicked([m EXCEPT !.dp = m.dp + n])
  ELSE Advance([m EXCEPT !.dp = m.dp + n])

\* `self.dp -= n` and what follows it.
DoDecDP(m, n) ==
  IF overflow_checks /\ SubOverflows(m.dp, n) THEN Panicked(m)
  ELSE Advance([m EXCEPT !.dp = m.dp - n])

\* `self.data[self.dp] = self.data[self.dp].wrapping_add(k)`
DoIncData(m, k) ==
  IF IndexPanics(m.dp) THEN Panicked(m)
  ELSE Advance([m EXCEPT !.data = Store(m.data, m.dp, WrappingAdd(Cell(m.data, m.dp), k))])

DoDecDataMutant(m, k) ==
  IF IndexPanics(m.dp) THEN Panicked(m)
  ELSE Advance([m EXCEPT !.data = Store(m.data, m.dp, WrappingAdd(Cell(m.data, m.dp), k))])

\* `self.data[self.dp] = self.data[self.dp].wrapping_sub(k)`
DoDecData(m, k) ==
  IF IndexPanics(m.dp) THEN Panicked(m)
  ELSE Advance([m EXCEPT !.data = Store(m.data, m.dp, WrappingSub(Cell(m.data, m.dp), k))])

DoReadMutant(m) ==
  IF IndexPanics(m.dp) THEN Panicked(m)
  ELSE IF m.reader >= Len(input) THEN Advance(m)
  ELSE Advance([m EXCEPT !.data = Store(m.data, m.dp, input[m.reader + 1]),
                         !.reader = m.reader + 1])

\* `self.reader.read_exact(&mut self.data[self.dp..self.dp + 1])?`
DoRead(m) ==
  IF IndexPanics(m.dp) THEN Panicked(m)
  ELSE IF m.reader >= Len(input) THEN [m EXCEPT !.status = "returned_err"]
  ELSE Advance([m EXCEPT !.data = Store(m.data, m.dp, input[m.reader + 1]),
                         !.reader = m.reader + 1])

\* A writer no call of which fails.
NoFail == -1

\* The calls of the writer that returned Ok: write_all once for each byte
\* written, and flush.
WriterCalls(m) == Len(m.writer) + m.flushes

\* Whether the next call of the writer returns an error.
WriterFails(m) == sink # NoFail /\ WriterCalls(m) >= sink

\* How many of n calls of write_all in a row return Ok.
Accepted(m, n) ==
  IF sink = NoFail \/ WriterCalls(m) + n <= sink THEN n
  ELSE IF WriterCalls(m) >= sink THEN 0
  ELSE sink - WriterCalls(m)

WriterFailedMutant(m) == Advance(m)

\* The `?` after a call of the writer that returned an error (and the last
\* expression of execute): execute returns the error.
WriterFailed(m) == [m EXCEPT !.status = "returned_err"]

\* `self.writer.flush()`: everything written so far is pushed out.
FlushWriter(m) ==
  [m EXCEPT !.flushes = m.flushes + 1, !.flushed = Len(m.writer)]

\* n times `self.writer.write_all(&self.data[self.dp..self.dp + 1])?`
WriteAll(m, n) ==
  [m EXCEPT !.writer = m.writer \o [k \in 1..n |-> Cell(m.data, m.dp)]]

DoWriteMutant(m, n) ==
  IF n > 0 /\ IndexPanics(m.dp) THEN Panicked(m)
  ELSE Advance(IF flush = "OnWrite" THEN WriteAll(FlushWriter(m), n)
               ELSE WriteAll(m, n))

\* The n writes, then
\* `if flush == FlushBehavior::OnWrite { self.writer.flush()?; }`; the
\* first call that returns an error ends execute.
DoWrite(m, n) ==
  IF n > 0 /\ IndexPanics(m.dp) THEN Panicked(m)
  ELSE LET w == WriteAll(m, Accepted(m, n))
       IN IF Accepted(m, n) < n THEN WriterFailed(w)
          ELSE IF flush # "OnWrite" THEN Advance(w)
          ELSE IF WriterFails(w) THEN WriterFailed(w)
          ELSE Advance(FlushWriter(w))

DoReturnMutant(m) ==
  [(IF flush # "OnWrite" THEN FlushWriter(m) ELSE m) EXCEPT !.status = "returned_ok"]

\* The end of execute: `if flush == FlushBehavior::OnEnd { self.writer.flush() }
\* else { Ok(()) }`
DoReturn(m) ==
  IF flush # "OnEnd" THEN [m EXCEPT !.status = "returned_ok"]
  ELSE IF WriterFails(m) THEN WriterFailed(m)
  ELSE [FlushWriter(m) EXCEPT !.status = "returned_ok"]

\* ------------------------------------------------------------- mmap.rs

\* A memory mapped region: whether it is mapped, its protection ("rw" for
\* PROT_READ | PROT_WRITE, "x" for PROT_EXEC) and its bytes.
NoRegion == [ mapped |-> FALSE, prot |-> "none", bytes |-> << >> ]

\* MemoryMap::new where mmap succeeds: len zeroed bytes, readable and
\* writable.
MemoryMapNew(len) == [ mapped |-> TRUE, prot |-> "rw", bytes |-> Repeat(0, len) ]

\* `mmap.get_mut().copy_from_slice(src)`, which panics unless the lengths
\* are equal.
CopyPanics(region, src) == Len(region.bytes) # Len(src)
CopyFromSlice(region, src) == [region EXCEPT !.bytes = src]

SetExecutableMutant(region) == [region EXCEPT !.prot = "rwx"]

\* MemoryMap::set_executable where mprotect succeeds.
SetExecutable(region) == [region EXCEPT !.prot = "x"]

\* ------------------------------------------------------------- jit.rs: the native routine

\* The JitCompiler and the run of its routine are a record of
\*   status      "new" after JitCompiler::new, "emit" in the for loop of
\*               execute, "emitted" after emit_stack_teardown, "mapped",
\*               "copied", "executable" along lines 66-68, "native" while
\*               the routine runs, "ret" when it has returned to
\*               MemoryMap::execute, then "returned_ok"; "returned_err",
\*               "panicked", or "crashed" when the process was killed
\*               inside the routine,
\*   i           the index of the for loop,
\*   buf         machine_code.buf,
\*   suspend_write  machine_code.suspend_write,
\*   region      the memory map,
\*   data_start  the address of data[0],
\*   outside     what the bytes around the vector `data` hold,
\*   rip         the offset in the region of the next native instruction,
\*   r12         the register r12 (the address of the current cell),
\*   data        the memory written through r12, by offset from data_start,
\*   reader      the number of bytes read from file descriptor 0,
\*   writer      the bytes written to file descriptor 1,
\*   steps       the number of native instructions executed.
\* The routine saves rbp and r12 on entry and restores them before ret; the
\* stack is not part of the record.
NewJit(data_start, outside) ==
  [ status |-> "new", i |-> 0, buf |-> NewMachineCode.buf,
    suspend_write |-> NewMachineCode.suspend_write, region |-> NoRegion,
    data_start |-> data_start, outside |-> outside,
    rip |-> 0, r12 |-> 0, data |-> << >>, reader |-> 0, writer |-> << >>,
    steps |-> 0 ]

\* Whether the bytes pat stand at offset at of bytes.
At(bytes, at, pat) ==
  /\ at >= 0
  /\ at + Len(pat) <= Len(bytes)
  /\ \A k \in 1..Len(pat) : bytes[at + k] = pat[k]

\* The integer whose four to_le_bytes stand at offset at (an i32).
FromLe(bytes, at) ==
  bytes[at + 1] + 256 * bytes[at + 2] + 65536 * bytes[at + 3]
    + 16777216 * (IF bytes[at + 4] >= 128 THEN bytes[at + 4] - 256 ELSE bytes[at + 4])

\* The native instruction (or the block of them an emitter writes at once)
\* at offset at: its kind, its length and its immediate operand.
Decode(bytes, at) ==
  LET ins(kind, len, imm) == [kind |-> kind, len |-> len, imm |-> imm]
  IN IF At(bytes, at, << 85, 65, 84, 73, 188 >>) /\ At(bytes, at + 13, << 72, 137, 229 >>)
       THEN ins("setup", 16, FromLe(bytes, at + 5))
     ELSE IF At(bytes, at, EmitStackTeardown) THEN ins("teardown", 7, 0)
     ELSE IF At(bytes, at, << 73, 255, 196 >>) THEN ins("add_r12", 3, 1)
     ELSE IF At(bytes, at, << 73, 131, 196 >>) /\ at + 4 <= Len(bytes)
       THEN ins("add_r12", 4, IF bytes[at + 4] >= 128 THEN bytes[at + 4] - 256
                              ELSE bytes[at + 4])
     ELSE IF At(bytes, at, << 73, 129, 196 >>) /\ at + 7 <= Len(bytes)
       THEN ins("add_r12", 7, FromLe(bytes, at + 3))
     ELSE IF At(bytes, at, << 73, 255, 204 >>) THEN ins("sub_r12", 3, 1)
     ELSE IF At(bytes, at, << 73, 131, 236 >>) /\ at + 4 <= Len(bytes)
       THEN ins("sub_r12", 4, IF bytes[at + 4] >= 128 THEN bytes[at + 4] - 256
                              ELSE bytes[at + 4])
     ELSE IF At(bytes, at, << 73, 129, 236 >>) /\ at + 7 <= Len(bytes)
       THEN ins("sub_r12", 7, FromLe(bytes, at + 3))
     ELSE IF At(bytes, at, << 65, 254, 4, 36 >>) THEN ins("add_byte", 4, 1)
     ELSE IF At(bytes, at, << 65, 128, 4, 36 >>) /\ at + 5 <= Len(bytes)
       THEN ins("add_byte", 5, bytes[at + 5])
     ELSE IF At(bytes, at, << 65, 254, 12, 36 >>) THEN ins("sub_byte", 4, 1)
     ELSE IF At(bytes, at, << 65, 128, 44, 36 >>) /\ at + 5 <= Len(bytes)
       THEN ins("sub_byte", 5, bytes[at + 5])
     ELSE IF At(bytes, at, WriteSyscall) THEN ins("write", 20, 0)
     ELSE IF At(bytes, at, EmitReadByteAtDp) THEN ins("read", 20, 0)
     ELSE IF At(bytes, at, CmpJe) /\ at + 11 <= Len(bytes)
       THEN ins("je", 11, FromLe(bytes, at + 7))
     ELSE IF At(bytes, at, CmpJne) /\ at + 11 <= Len(bytes)
       THEN ins("jne", 11, FromLe(bytes, at + 7))
     ELSE ins("invalid", 0, 0)

\* The offset of r12 from data_start: the index of the current cell.
JitDp(j) == j.r12 - j.data_start

\* BYTE PTR [r12]
JitCell(j) ==
  IF JitDp(j) \in DOMAIN j.data THEN j.data[JitDp(j)]
  ELSE IF IndexPanics(JitDp(j)) THEN j.outside ELSE 0

\* BYTE PTR [r12] = v.  As for the machines, a cell of the tape that holds
\* 0 is left out of data.
JitStore(j, v) ==
  LET dp == JitDp(j)
  IN [ k \in (DOMAIN j.data \ {dp})
              \cup (IF v = 0 /\ ~IndexPanics(dp) THEN {} ELSE {dp}) |->
         IF k = dp THEN v ELSE j.data[k] ]

\* The end of a native instruction of length len that does not jump.
JitAdvance(j, len) == [j EXCEPT !.rip = j.rip + len, !.steps = j.steps + 1]

\* ------------------------------------------------------------- compile, step by step

InitCompile ==
  /\ code \in SeqsUpTo(SrcAlphabet, MaxSrcLen)
  /\ order \in Orders
  /\ cpc = "fold"
  /\ ci = 0
  /\ instructions = << >>
  /\ input = << >>
  /\ flush = "OnWrite"
  /\ overflow_checks = TRUE
  /\ interpreter = NewMachine
  /\ vm = NewMachine
  /\ jit = NewJit(0, 0)
  /\ sink = NoFail
  /\ budget = 0

\* compiler.rs 24-34: one iteration of the first while loop.
CompileFold ==
  /\ cpc = "fold"
  /\ ci < Len(code)
  /\ LET r == FoldRound(code, order, [i |-> ci, instructions |-> instructions])
     IN /\ ci' = r.i
        /\ instructions' = r.instructions
  /\ UNCHANGED << code, order, cpc, rvars >>

\* compiler.rs 24, 36: the first loop ends, i = 0.
CompileFoldEnd ==
  /\ cpc = "fold"
  /\ ci >= Len(code)
  /\ cpc' = "link_forward"
  /\ ci' = 0
  /\ UNCHANGED << code, order, instructions, rvars >>

CompileLinkForwardMutant ==
  /\ cpc = "link_forward"
  /\ ci < Len(instructions)
  /\ instructions' = LinkForward(instructions, ci)
  /\ ci' = IF instructions[ci + 1] = JumpZeroPlaceholder THEN ci ELSE ci + 1
  /\ UNCHANGED << code, order, cpc, rvars >>

\* compiler.rs 37-59: one iteration of the second while loop.
CompileLinkForward ==
  /\ cpc = "link_forward"
  /\ ci < Len(instructions)
  /\ instructions' = LinkForward(instructions, ci)
  /\ ci' = ci + 1
  /\ UNCHANGED << code, order, cpc, rvars >>

\* compiler.rs 37, 61: the second loop ends, i = 0.
CompileLinkForwardEnd ==
  /\ cpc = "link_forward"
  /\ ci >= Len(instructions)
  /\ cpc' = "link_backward"
  /\ ci' = 0
  /\ UNCHANGED << code, order, instructions, rvars >>

\* compiler.rs 62-75: one iteration of the third while loop.
CompileLinkBackward ==
  /\ cpc = "link_backward"
  /\ ci < Len(instructions)
  /\ ~BackwardPanics(instructions, ci)
  /\ instructions' = LinkBackward(instructions, ci)
  /\ ci' = ci + 1
  /\ UNCHANGED << code, order, cpc, rvars >>

\* compiler.rs 66-70: the index or the assert_eq! panics.
CompileLinkBackwardPanic ==
  /\ cpc = "link_backward"
  /\ ci < Len(instructions)
  /\ BackwardPanics(instructions, ci)
  /\ cpc' = "panicked"
  /\ UNCHANGED << code, order, ci, instructions, rvars >>

\* compiler.rs 62, 77: the third loop ends and compile returns.
CompileReturn ==
  /\ cpc = "link_backward"
  /\ ci >= Len(instructions)
  /\ cpc' = "returned"
  /\ UNCHANGED << code, order, ci, instructions, rvars >>

NextCompile ==
  \/ CompileFold
  \/ CompileFoldEnd
  \/ CompileLinkForward
  \/ CompileLinkForwardEnd
  \/ CompileLinkBackward
  \/ CompileLinkBackwardPanic
  \/ CompileReturn

SpecCompile == InitCompile /\ [][NextCompile]_vars

\* The sources compile is followed to its end on: those of the two
\* brackets, two idents that fold and a comment byte.
LiveAlphabet ==
  {IDENT_INC_DP, IDENT_INC_DATA, IDENT_JUMP_ZERO, IDENT_JUMP_NOT_ZERO, 120}

InitCompileLive ==
  /\ InitCompile
  /\ \A k \in 1..Len(code) : code[k] \in LiveAlphabet

\* The steps of compile after its first loop.
CompileTail ==
  \/ CompileFoldEnd
  \/ CompileLinkForward
  \/ CompileLinkForwardEnd
  \/ CompileLinkBackward
  \/ CompileLinkBackwardPanic
  \/ CompileReturn

\* Weak fairness of CompileFold, with the condition of the first while loop
\* in the place of ENABLED: the loop does not stay at `while i <
\* self.code.len()` with the condition true for ever without an iteration.
CompileFoldFair ==
  \/ []<>(~(cpc = "fold" /\ ci < Len(code)))
  \/ []<><<CompileFold>>_vars

\* compile is straight-line code of one thread: while one of its steps can
\* be taken, one is taken.
SpecCompileLive ==
  InitCompileLive /\ [][NextCompile]_vars /\ WF_vars(CompileTail) /\ CompileFoldFair

\* ------------------------------------------------------------- interpreter.rs

ScanForwardMutant(src, ip, brackets) ==
  IF \E j \in (ip + 1)..Len(src) : src[j] = IDENT_JUMP_NOT_ZERO
    THEN (CHOOSE j \in (ip + 1)..Len(src) :
            /\ src[j] = IDENT_JUMP_NOT_ZERO
            /\ \A k \in (ip + 1)..(j - 1) : src[k] # IDENT_JUMP_NOT_ZERO) - 1
    ELSE -1

\* The `loop` of the IDENT_JUMP_ZERO arm, started at index ip with `brackets`
\* counted: the index it breaks at, or -1 when self.code[self.ip] panics.
RECURSIVE ScanForward(_, _, _)
ScanForward(src, ip, brackets) ==
  IF ip >= Len(src) THEN -1
  ELSE LET b == IF src[ip + 1] = IDENT_JUMP_ZERO THEN brackets + 1
                ELSE IF src[ip + 1] = IDENT_JUMP_NOT_ZERO THEN brackets - 1
                ELSE brackets
       IN IF b = 0 THEN ip ELSE ScanForward(src, ip + 1, b)

\* The `loop` of the IDENT_JUMP_NOT_ZERO arm: the index it breaks at, or -1
\* when it panics (`self.ip -= 1` at 0 overflows, or wraps and then
\* self.code[self.ip] is out of bounds).
RECURSIVE ScanBackward(_, _, _)
ScanBackward(src, ip, brackets) ==
  IF ip < 0 THEN -1
  ELSE LET b == IF src[ip + 1] = IDENT_JUMP_ZERO THEN brackets - 1
                ELSE IF src[ip + 1] = IDENT_JUMP_NOT_ZERO THEN brackets + 1
                ELSE brackets
       IN IF b = 0 THEN ip ELSE ScanBackward(src, ip - 1, b)

\* `while self.ip < self.code.len()` with `instruction` = b.
InterpFetch(b) ==
  /\ interpreter.status = "running"
  /\ interpreter.steps < budget
  /\ interpreter.ip < Len(code)
  /\ code[interpreter.ip + 1] = b

InterpFrame ==
  UNCHANGED << code, order, cpc, ci, instructions, input, flush,
               overflow_checks, vm, jit, sink, budget >>

\* interpreter.rs 56-59
InterpIncDP ==
  /\ InterpFetch(IDENT_INC_DP)
  /\ interpreter' = DoIncDP(interpreter, 1)
  /\ InterpFrame

\* interpreter.rs 60
InterpDecDP ==
  /\ InterpFetch(IDENT_DEC_DP)
  /\ interpreter' = DoDecDP(interpreter, 1)
  /\ InterpFrame

\* interpreter.rs 61
InterpIncData ==
  /\ InterpFetch(IDENT_INC_DATA)
  /\ interpreter' = DoIncData(interpreter, 1)
  /\ InterpFrame

\* interpreter.rs 62
InterpDecData ==
  /\ InterpFetch(IDENT_DEC_DATA)
  /\ interpreter' = DoDecData(interpreter, 1)
  /\ InterpFrame

\* interpreter.rs 63-65
InterpReadByte ==
  /\ InterpFetch(IDENT_READ_BYTE)
  /\ interpreter' = DoRead(interpreter)
  /\ InterpFrame

\* interpreter.rs 66-71
InterpWriteByte ==
  /\ InterpFetch(IDENT_WRITE_BYTE)
  /\ interpreter' = DoWrite(interpreter, 1)
  /\ InterpFrame

\* interpreter.rs 72-85: the guard panics, or it holds and the scan runs.
InterpJumpZero ==
  /\ InterpFetch(IDENT_JUMP_ZERO)
  /\ IF IndexPanics(interpreter.dp) THEN interpreter' = Panicked(interpreter)
     ELSE /\ Cell(interpreter.data, interpreter.dp) = 0
          /\ LET j == ScanForward(code, interpreter.ip, 0)
             IN interpreter' =
                  IF j < 0 THEN Panicked(interpreter)
                  ELSE Advance([interpreter EXCEPT !.ip = j])
  /\ InterpFrame

\* interpreter.rs 86-99: the guard panics, or it holds and the scan runs.
InterpJumpNotZero ==
  /\ InterpFetch(IDENT_JUMP_NOT_ZERO)
  /\ IF IndexPanics(interpreter.dp) THEN interpreter' = Panicked(interpreter)
     ELSE /\ Cell(interpreter.data, interpreter.dp) # 0
          /\ LET j == ScanBackward(code, interpreter.ip, 0)
             IN interpreter' =
                  IF j < 0 THEN Panicked(interpreter)
                  ELSE Advance([interpreter EXCEPT !.ip = j])
  /\ InterpFrame

\* interpreter.rs 100: any other byte, and a bracket whose guard is false.
InterpOther ==
  /\ interpreter.status = "running"
  /\ interpreter.steps < budget
  /\ interpreter.ip < Len(code)
  /\ LET b == code[interpreter.ip + 1]
     IN \/ b \notin IDENTS
        \/ /\ b = IDENT_JUMP_ZERO
           /\ ~IndexPanics(interpreter.dp)
           /\ Cell(interpreter.data, interpreter.dp) # 0
        \/ /\ b = IDENT_JUMP_NOT_ZERO
           /\ ~IndexPanics(interpreter.dp)
           /\ Cell(interpreter.data, interpreter.dp) = 0
  /\ interpreter' = Advance(interpreter)
  /\ InterpFrame

\* interpreter.rs 53, 106-110
InterpReturn ==
  /\ interpreter.status = "running"
  /\ interpreter.ip >= Len(code)
  /\ interpreter' = DoReturn(interpreter)
  /\ InterpFrame

\* ------------------------------------------------------------- virtual_machine.rs

\* Whether the interpreter's run is still followed.
InterpRuns ==
  /\ interpreter.status = "running"
  /\ interpreter.steps < budget \/ interpreter.ip >= Len(code)

\* The VM is constructed once compile has returned (main.rs 75-76); its run
\* is followed after the interpreter's.
VMRuns ==
  /\ cpc = "returned"
  /\ ~InterpRuns
  /\ vm.status = "running"

\* `while self.ip < self.instructions.len()` with an instruction of
\* variant op.
VMFetch(op) ==
  /\ VMRuns
  /\ vm.steps < budget
  /\ vm.ip < Len(instructions)
  /\ instructions[vm.ip + 1].op = op

VMFrame ==
  UNCHANGED << code, order, cpc, ci, instructions, input, flush,
               overflow_checks, interpreter, jit, sink, budget >>

\* virtual_machine.rs 40-43
VMIncDP ==
  /\ VMFetch("IncDP")
  /\ vm' = DoIncDP(vm, instructions[vm.ip + 1].n)
  /\ VMFrame

\* virtual_machine.rs 44
VMDecDP ==
  /\ VMFetch("DecDP")
  /\ vm' = DoDecDP(vm, instructions[vm.ip + 1].n)
  /\ VMFrame

\* virtual_machine.rs 45-47
VMIncByteAtDP ==
  /\ VMFetch("IncByteAtDP")
  /\ vm' = DoIncData(vm, AsU8(instructions[vm.ip + 1].n))
  /\ VMFrame

\* virtual_machine.rs 48-50
VMDecByteAtDP ==
  /\ VMFetch("DecByteAtDP")
  /\ vm' = DoDecData(vm, AsU8(instructions[vm.ip + 1].n))
  /\ VMFrame

\* virtual_machine.rs 51-53
VMReadByte ==
  /\ VMFetch("ReadByte")
  /\ vm' = DoRead(vm)
  /\ VMFrame

\* virtual_machine.rs 54-61
VMWriteByte ==
  /\ VMFetch("WriteByte")
  /\ vm' = DoWrite(vm, instructions[vm.ip + 1].n)
  /\ VMFrame

\* virtual_machine.rs 62-65: the guard panics, or it holds; `continue`.
VMJumpZero ==
  /\ VMFetch("JumpZero")
  /\ IF IndexPanics(vm.dp) THEN vm' = Panicked(vm)
     ELSE /\ Cell(vm.data, vm.dp) = 0
          /\ vm' = [vm EXCEPT !.ip = vm.ip + instructions[vm.ip + 1].n,
                              !.steps = vm.steps + 1]
  /\ VMFrame

VMJumpNotZeroMutant ==
  /\ VMFetch("JumpNotZero")
  /\ IF IndexPanics(vm.dp) THEN vm' = Panicked(vm)
     ELSE /\ Cell(vm.data, vm.dp) # 0
          /\ vm' = [vm EXCEPT !.ip = vm.ip - instructions[vm.ip + 1].n - 1,
                              !.steps = vm.steps + 1]
  /\ VMFrame

\* virtual_machine.rs 66-69: the guard panics, or it holds; `continue`.
VMJumpNotZero ==
  /\ VMFetch("JumpNotZero")
  /\ IF IndexPanics(vm.dp) THEN vm' = Panicked(vm)
     ELSE /\ Cell(vm.data, vm.dp) # 0
          /\ vm' = [vm EXCEPT !.ip = vm.ip - instructions[vm.ip + 1].n,
                              !.steps = vm.steps + 1]
  /\ VMFrame

\* virtual_machine.rs 70: the placeholders, and a jump whose guard is false.
VMOther ==
  /\ VMRuns
  /\ vm.steps < budget
  /\ vm.ip < Len(instructions)
  /\ LET op == instructions[vm.ip + 1].op
     IN \/ op \in {"JumpZeroPlaceholder", "JumpNotZeroPlaceholder"}
        \/ /\ op = "JumpZero"
           /\ ~IndexPanics(vm.dp)
           /\ Cell(vm.data, vm.dp) # 0
        \/ /\ op = "JumpNotZero"
           /\ ~IndexPanics(vm.dp)
           /\ Cell(vm.data, vm.dp) = 0
  /\ vm' = Advance(vm)
  /\ VMFrame

\* virtual_machine.rs 38, 76-80
VMReturn ==
  /\ VMRuns
  /\ vm.ip >= Len(instructions)
  /\ vm' = DoReturn(vm)
  /\ VMFrame

\* ------------------------------------------------------------- runs

\* Longest source enumerated for a run, longest input, and the number of
\* loop iterations of execute a run is followed for.
MaxRunLen == 3
MaxInputLen == 3
MaxSteps == 40

\* The k-th byte of the input stream: 2, 0, 1, 2, 0, ...
InputByte(k) == (k + 1) % 3

Inputs == { [k \in 1..n |-> InputByte(k)] : n \in 0..MaxInputLen }

\* The source of tests::test_remove_repeating_reads (compiler.rs 166):
\* ",,,,,.,,,.,"
TestRepeatingReads ==
  << IDENT_READ_BYTE, IDENT_READ_BYTE, IDENT_READ_BYTE, IDENT_READ_BYTE,
     IDENT_READ_BYTE, IDENT_WRITE_BYTE, IDENT_READ_BYTE, IDENT_READ_BYTE,
     IDENT_READ_BYTE, IDENT_WRITE_BYTE, IDENT_READ_BYTE >>

\* ++[>+[-]<-]: a loop that runs twice around a loop that runs once.
LoopInLoop ==
  << IDENT_INC_DATA, IDENT_INC_DATA, IDENT_JUMP_ZERO, IDENT_INC_DP,
     IDENT_INC_DATA, IDENT_JUMP_ZERO, IDENT_DEC_DATA, IDENT_JUMP_NOT_ZERO,
     IDENT_DEC_DP, IDENT_DEC_DATA, IDENT_JUMP_NOT_ZERO >>

\* [[-]+].: a loop around a loop, skipped as a whole.
SkippedLoops ==
  << IDENT_JUMP_ZERO, IDENT_JUMP_ZERO, IDENT_DEC_DATA, IDENT_JUMP_NOT_ZERO,
     IDENT_INC_DATA, IDENT_JUMP_NOT_ZERO, IDENT_WRITE_BYTE >>

\* Sources of runs: every short source, runs of `+` and of `-` longer than
\* a cell is wide, the source of a test, and two sources with nested loops.
RunSources ==
  SeqsUpTo(IDENTS, MaxRunLen)
    \cup { Repeat(IDENT_INC_DATA, 256 + MaxRunLen),
           Repeat(IDENT_DEC_DATA, 256 + MaxRunLen),
           TestRepeatingReads, LoopInLoop, SkippedLoops }

\* The state in which the interpreter is constructed on a source and the
\* VM on what compile gave for it (main.rs 68-82).
InitRun(sources, inputs, flushes, steps) ==
  /\ budget = steps
  /\ code \in sources
  /\ order = IterOrder(0)
  /\ LET c == Compile(code, order)
     IN /\ cpc = IF c.panicked THEN "panicked" ELSE "returned"
        /\ instructions = c.instructions
        /\ ci = Len(c.instructions)
  /\ input \in inputs
  /\ flush \in flushes
  /\ overflow_checks \in BOOLEAN
  /\ interpreter = NewMachine
  /\ vm = NewMachine

\* A run of main.rs 68-82: no JitCompiler is constructed.
NoJit == NewJit(0, 0)

Init ==
  /\ InitRun(RunSources, Inputs, FlushBehaviors, MaxSteps)
  /\ jit = NoJit
  /\ sink = NoFail

\* Whether a machine has left execute.
Finished(m) == m.status # "running"

Next ==
  \/ InterpIncDP
  \/ InterpDecDP
  \/ InterpIncData
  \/ InterpDecData
  \/ InterpReadByte
  \/ InterpWriteByte
  \/ InterpJumpZero
  \/ InterpJumpNotZero
  \/ InterpOther
  \/ InterpReturn
  \/ VMIncDP
  \/ VMDecDP
  \/ VMIncByteAtDP
  \/ VMDecByteAtDP
  \/ VMReadByte
  \/ VMWriteByte
  \/ VMJumpZero
  \/ VMJumpNotZero
  \/ VMOther
  \/ VMReturn

Spec == Init /\ [][Next]_vars

\* ------------------------------------------------------------- the end of the tape

\* Sources that walk the tape: DATA_SIZE and DATA_SIZE - 1 times `>`, and
\* every short source of `>` and `<`.
TapeSources ==
  { Repeat(IDENT_INC_DP, DATA_SIZE), Repeat(IDENT_INC_DP, DATA_SIZE - 1) }
    \cup SeqsUpTo({IDENT_INC_DP, IDENT_DEC_DP}, MaxRunLen)

\* The runs of the tests of interpreter.rs: no input, FlushBehavior::OnEnd.
InitTape ==
  /\ InitRun(TapeSources, {<< >>}, {"OnEnd"}, DATA_SIZE + MaxSteps)
  /\ jit = NoJit
  /\ sink = NoFail

NextTape ==
  \/ InterpIncDP
  \/ InterpDecDP
  \/ InterpReturn
  \/ VMIncDP
  \/ VMDecDP
  \/ VMReturn

SpecTape == InitTape /\ [][NextTape]_vars

\* ------------------------------------------------------------- jit.rs: JitCompiler::execute

\* Whether the VM's run is no longer followed.
VMDone ==
  \/ vm.status # "running"
  \/ vm.steps >= budget /\ vm.ip < Len(instructions)

\* The JitCompiler is constructed once compile has returned (main.rs 86);
\* its run is followed after the VM's.
JitRuns(status) ==
  /\ cpc = "returned"
  /\ ~InterpRuns
  /\ VMDone
  /\ jit.status = status

JitFrame ==
  UNCHANGED << code, order, cpc, ci, instructions, input, flush,
               overflow_checks, interpreter, vm, sink, budget >>

\* self.machine_code
JitMachineCode == [ buf |-> jit.buf, suspend_write |-> jit.suspend_write ]

\* jit.rs 25-27: the tape is allocated and the prologue emitted.
JitBegin ==
  /\ JitRuns("new")
  /\ LET mc == Write(JitMachineCode, EmitStackSetup(jit.data_start)).mc
     IN jit' = [jit EXCEPT !.status = "emit",
                           !.buf = mc.buf,
                           !.suspend_write = mc.suspend_write]
  /\ JitFrame

\* jit.rs 29-62: one iteration of the for loop.
JitEmit ==
  /\ JitRuns("emit")
  /\ jit.i < Len(instructions)
  /\ ~JitEmitPanics(instructions, jit.i)
  /\ LET mc == JitEmitInstruction(JitMachineCode, instructions, jit.i)
     IN jit' = [jit EXCEPT !.buf = mc.buf,
                           !.suspend_write = mc.suspend_write,
                           !.i = jit.i + 1]
  /\ JitFrame

\* jit.rs 38-41, 51, 60: an assert_eq! or unreachable!() panics.
JitEmitPanic ==
  /\ JitRuns("emit")
  /\ jit.i < Len(instructions)
  /\ JitEmitPanics(instructions, jit.i)
  /\ jit' = [jit EXCEPT !.status = "panicked"]
  /\ JitFrame

\* jit.rs 64: the epilogue is emitted.
JitEmitEnd ==
  /\ JitRuns("emit")
  /\ jit.i >= Len(instructions)
  /\ LET mc == Write(JitMachineCode, EmitStackTeardown).mc
     IN jit' = [jit EXCEPT !.status = "emitted",
                           !.buf = mc.buf,
                           !.suspend_write = mc.suspend_write]
  /\ JitFrame

\* jit.rs 66, mmap.rs 18-42: mmap succeeds.
JitMmap ==
  /\ JitRuns("emitted")
  /\ jit' = [jit EXCEPT !.status = "mapped",
                        !.region = MemoryMapNew(Len(jit.buf))]
  /\ JitFrame

\* jit.rs 66, mmap.rs 31-33: mmap fails and execute returns the error.
JitMmapFails ==
  /\ JitRuns("emitted")
  /\ jit' = [jit EXCEPT !.status = "returned_err"]
  /\ JitFrame

\* jit.rs 67
JitCopy ==
  /\ JitRuns("mapped")
  /\ jit' = IF CopyPanics(jit.region, jit.buf)
              THEN [jit EXCEPT !.status = "panicked"]
              ELSE [jit EXCEPT !.status = "copied",
                               !.region = CopyFromSlice(jit.region, jit.buf)]
  /\ JitFrame

\* jit.rs 68, mmap.rs 51-63: mprotect succeeds.
JitSetExecutable ==
  /\ JitRuns("copied")
  /\ jit' = [jit EXCEPT !.status = "executable",
                        !.region = SetExecutable(jit.region)]
  /\ JitFrame

JitSetExecutableFailsMutant ==
  /\ JitRuns("copied")
  /\ jit' = [jit EXCEPT !.status = "executable"]
  /\ JitFrame

\* jit.rs 68, mmap.rs 55-56: mprotect fails and execute returns the error;
\* the MemoryMap is dropped, which unmaps nothing.
JitSetExecutableFails ==
  /\ JitRuns("copied")
  /\ jit' = [jit EXCEPT !.status = "returned_err"]
  /\ JitFrame

\* jit.rs 72, mmap.rs 73-76: the first byte of the region is called.
JitCall ==
  /\ JitRuns("executable")
  /\ jit' = [jit EXCEPT !.status = "native", !.rip = 0]
  /\ JitFrame

\* The native instruction the routine is at.
Fetched == Decode(jit.region.bytes, jit.rip)

NativeFetch(kinds) ==
  /\ JitRuns("native")
  /\ jit.steps < budget
  /\ Fetched.kind \in kinds

\* Whether r12 points into the vector `data`.
JitInTape == ~IndexPanics(JitDp(jit))

\* jit.rs 103-106: r12 is loaded with the address of the tape.
NativeStackSetup ==
  /\ NativeFetch({"setup"})
  /\ jit' = JitAdvance([jit EXCEPT !.r12 = Fetched.imm], Fetched.len)
  /\ JitFrame

\* jit.rs 140, 144, 148: inc r12 / add r12,<n>
NativeAddR12 ==
  /\ NativeFetch({"add_r12"})
  /\ jit' = JitAdvance([jit EXCEPT !.r12 = jit.r12 + Fetched.imm], Fetched.len)
  /\ JitFrame

\* jit.rs 159, 163, 167: dec r12 / sub r12,<n>
NativeSubR12 ==
  /\ NativeFetch({"sub_r12"})
  /\ jit' = JitAdvance([jit EXCEPT !.r12 = jit.r12 - Fetched.imm], Fetched.len)
  /\ JitFrame

\* jit.rs 178, 182: inc / add BYTE PTR [r12],<n>
NativeAddByte ==
  /\ NativeFetch({"add_byte"})
  /\ jit' = JitAdvance(
              [jit EXCEPT !.data = JitStore(jit, WrappingAdd(JitCell(jit), Fetched.imm))],
              Fetched.len)
  /\ JitFrame

\* jit.rs 193, 197: dec / sub BYTE PTR [r12],<n>
NativeSubByte ==
  /\ NativeFetch({"sub_byte"})
  /\ jit' = JitAdvance(
              [jit EXCEPT !.data = JitStore(jit, WrappingSub(JitCell(jit), Fetched.imm))],
              Fetched.len)
  /\ JitFrame

\* jit.rs 207-211: write(1, r12, 1).  Outside the tape the byte is written
\* or the call fails with EFAULT; its result is not looked at.
NativeWrite ==
  /\ NativeFetch({"write"})
  /\ \/ jit' = JitAdvance([jit EXCEPT !.writer = Append(jit.writer, JitCell(jit))],
                          Fetched.len)
     \/ /\ ~JitInTape
        /\ jit' = JitAdvance(jit, Fetched.len)
  /\ JitFrame

\* jit.rs 221-225: read(0, r12, 1).  At the end of the input the call
\* returns 0 and stores nothing; outside the tape the byte is stored or the
\* call fails with EFAULT; its result is not looked at.
NativeRead ==
  /\ NativeFetch({"read"})
  /\ IF jit.reader >= Len(input) THEN jit' = JitAdvance(jit, Fetched.len)
     ELSE \/ jit' = JitAdvance([jit EXCEPT !.data = JitStore(jit, input[jit.reader + 1]),
                                           !.reader = jit.reader + 1],
                               Fetched.len)
          \/ /\ ~JitInTape
             /\ jit' = JitAdvance(jit, Fetched.len)
  /\ JitFrame

\* jit.rs 233-234: cmp BYTE PTR [r12],0x0; je <skip_bytes>
NativeJumpZero ==
  /\ NativeFetch({"je"})
  /\ jit' = JitAdvance(jit, IF JitCell(jit) = 0 THEN Fetched.len + Fetched.imm
                            ELSE Fetched.len)
  /\ JitFrame

\* jit.rs 242-243: cmp BYTE PTR [r12],0x0; jne <skip_bytes>
NativeJumpNotZero ==
  /\ NativeFetch({"jne"})
  /\ jit' = JitAdvance(jit, IF JitCell(jit) # 0 THEN Fetched.len + Fetched.imm
                            ELSE Fetched.len)
  /\ JitFrame

\* jit.rs 129-132: the routine returns to MemoryMap::execute.
NativeStackTeardown ==
  /\ NativeFetch({"teardown"})
  /\ jit' = [jit EXCEPT !.status = "ret", !.steps = jit.steps + 1]
  /\ JitFrame

\* The routine has no bounds checks: an access through r12 outside the
\* vector `data` may hit memory that is not mapped, and a jump may leave the
\* emitted instructions; the process is killed.
NativeFault ==
  /\ \/ NativeFetch({"invalid"})
     \/ NativeFetch({"add_byte", "sub_byte", "je", "jne"}) /\ ~JitInTape
  /\ jit' = [jit EXCEPT !.status = "crashed"]
  /\ JitFrame

\* jit.rs 72-75, mmap.rs 77: MemoryMap::execute returns, the MemoryMap is
\* dropped (nothing unmaps the region) and execute returns Ok(()).
JitReturn ==
  /\ JitRuns("ret")
  /\ jit' = [jit EXCEPT !.status = "returned_ok"]
  /\ JitFrame

\* Longest source enumerated for a run of the JIT.
MaxJitLen == 2

\* Sources that make the emitters take each of their forms: counts of 1,
\* below 128, from 128 and from 256, and loops.
JitSources ==
  SeqsUpTo(IDENTS, MaxJitLen)
    \cup { << IDENT_INC_DATA >> \o Repeat(IDENT_INC_DP, 256) \o << IDENT_WRITE_BYTE >>,
           Repeat(IDENT_INC_DP, 130) \o << IDENT_INC_DATA >>
             \o Repeat(IDENT_DEC_DP, 130) \o << IDENT_WRITE_BYTE >>,
           Repeat(IDENT_INC_DATA, 130) \o << IDENT_WRITE_BYTE >>
             \o Repeat(IDENT_DEC_DATA, 129) \o << IDENT_WRITE_BYTE >>,
           << IDENT_INC_DATA, IDENT_INC_DATA, IDENT_JUMP_ZERO, IDENT_INC_DP,
              IDENT_INC_DATA, IDENT_INC_DATA, IDENT_INC_DATA, IDENT_WRITE_BYTE,
              IDENT_DEC_DP, IDENT_DEC_DATA, IDENT_JUMP_NOT_ZERO >>,
           << IDENT_READ_BYTE, IDENT_JUMP_ZERO, IDENT_JUMP_ZERO, IDENT_WRITE_BYTE,
              IDENT_DEC_DATA, IDENT_JUMP_NOT_ZERO, IDENT_READ_BYTE,
              IDENT_JUMP_NOT_ZERO, IDENT_WRITE_BYTE >>,
           << IDENT_JUMP_ZERO, IDENT_JUMP_NOT_ZERO, IDENT_JUMP_NOT_ZERO >> }

\* Addresses the allocator gives the tape, and what the bytes around it hold.
DataStarts == { 65536 + 4096 }
OutsideBytes == { 0, 7 }

\* The runs of main.rs 68-92: FlushBehavior::OnWrite.
InitJit ==
  /\ InitRun(JitSources, Inputs, {"OnWrite"}, MaxSteps)
  /\ jit \in { NewJit(a, o) : a \in DataStarts, o \in OutsideBytes }
  /\ sink = NoFail

NextJit ==
  \/ InterpIncDP
  \/ InterpDecDP
  \/ InterpIncData
  \/ InterpDecData
  \/ InterpReadByte
  \/ InterpWriteByte
  \/ InterpJumpZero
  \/ InterpJumpNotZero
  \/ InterpOther
  \/ InterpReturn
  \/ VMIncDP
  \/ VMDecDP
  \/ VMIncByteAtDP
  \/ VMDecByteAtDP
  \/ VMReadByte
  \/ VMWriteByte
  \/ VMJumpZero
  \/ VMJumpNotZero
  \/ VMOther
  \/ VMReturn
  \/ JitBegin
  \/ JitEmit
  \/ JitEmitPanic
  \/ JitEmitEnd
  \/ JitMmap
  \/ JitMmapFails
  \/ JitCopy
  \/ JitSetExecutable
  \/ JitSetExecutableFails
  \/ JitCall
  \/ NativeStackSetup
  \/ NativeAddR12
  \/ NativeSubR12
  \/ NativeAddByte
  \/ NativeSubByte
  \/ NativeWrite
  \/ NativeRead
  \/ NativeJumpZero
  \/ NativeJumpNotZero
  \/ NativeStackTeardown
  \/ NativeFault
  \/ JitReturn

SpecJit == InitJit /\ [][NextJit]_vars

\* ------------------------------------------------------------- transfer loops

\* Largest count of `+` enumerated before a transfer loop, next to 255.
MaxTransfer == 3

\* [->+<]
TransferLoop ==
  << IDENT_JUMP_ZERO, IDENT_DEC_DATA, IDENT_INC_DP, IDENT_INC_DATA,
     IDENT_DEC_DP, IDENT_JUMP_NOT_ZERO >>

\* a times `+`, `>`, b times `+`, `<`, and the transfer loop: it starts at
\* dp = 0 with data[0] = a and data[1] = b.
Transfer(a, b) ==
  Repeat(IDENT_INC_DATA, a) \o << IDENT_INC_DP >> \o Repeat(IDENT_INC_DATA, b)
    \o << IDENT_DEC_DP >> \o TransferLoop

\* +[->+<]
TransferFromOne == << IDENT_INC_DATA >> \o TransferLoop

TransferSources ==
  { Transfer(a, b) : a \in 0..MaxTransfer \cup {255}, b \in {0, 1, 3, 255} }
    \cup { TransferFromOne }

\* A run of a transfer loop has at most 255 + 1 + 255 + 1 steps before the
\* loop, one at its `[` and five in each of at most 255 iterations.
TransferSteps == 512 + 1 + 5 * 255

\* The runs of the tests of interpreter.rs: no input, FlushBehavior::OnEnd.
InitTransfer ==
  /\ InitRun(TransferSources, {<< >>}, {"OnEnd"}, TransferSteps)
  /\ jit = NoJit
  /\ sink = NoFail

NextTransfer ==
  \/ InterpIncDP
  \/ InterpDecDP
  \/ InterpIncData
  \/ InterpDecData
  \/ InterpJumpZero
  \/ InterpJumpNotZero
  \/ InterpOther
  \/ InterpReturn
  \/ VMIncDP
  \/ VMDecDP
  \/ VMIncByteAtDP
  \/ VMDecByteAtDP
  \/ VMJumpZero
  \/ VMJumpNotZero
  \/ VMOther
  \/ VMReturn

SpecTransfer == InitTransfer /\ [][NextTransfer]_vars

\* ------------------------------------------------------------- writers that fail

\* Largest number of calls a failing writer takes before it fails.
MaxWriterCalls == 3

\* The writers of the runs: one that never fails and those that fail from
\* their k-th call on, k <= MaxWriterCalls.
Sinks == {NoFail} \cup 0..MaxWriterCalls

\* Sources that read and write: every short source of `+`, `.` and `,`.
IoSources ==
  SeqsUpTo({IDENT_INC_DATA, IDENT_WRITE_BYTE, IDENT_READ_BYTE}, MaxRunLen)

\* Runs with any reader and writer (Interpreter::new, VirtualMachine::new
\* take any R: Read and W: Write).
InitIo ==
  /\ InitRun(IoSources, Inputs, FlushBehaviors, MaxSteps)
  /\ jit = NoJit
  /\ sink \in Sinks

NextIo ==
  \/ InterpIncData
  \/ InterpReadByte
  \/ InterpWriteByte
  \/ InterpReturn
  \/ VMIncByteAtDP
  \/ VMReadByte
  \/ VMWriteByte
  \/ VMReturn

SpecIo == InitIo /\ [][NextIo]_vars

\* ------------------------------------------------------------- what the claims speak of

\* The source without its comment bytes.
Filter(src) == SelectSeq(src, LAMBDA b : b \in IDENTS)

\* Bracket matching by nesting depth: the number of `[` left open at the end
\* of the source and the number of `]` that close nothing.
RECURSIVE Unmatched(_, _, _, _)
Unmatched(src, k, open, close) ==
  IF k > Len(src) THEN [open |-> open, close |-> close]
  ELSE IF src[k] = IDENT_JUMP_ZERO THEN Unmatched(src, k + 1, open + 1, close)
  ELSE IF src[k] = IDENT_JUMP_NOT_ZERO
    THEN IF open > 0 THEN Unmatched(src, k + 1, open - 1, close)
         ELSE Unmatched(src, k + 1, open, close + 1)
  ELSE Unmatched(src, k + 1, open, close)

HasUnmatchedBegin(src) == Unmatched(src, 1, 0, 0).open > 0
HasUnmatchedEnd(src) == Unmatched(src, 1, 0, 0).close > 0
Balanced(src) == ~HasUnmatchedBegin(src) /\ ~HasUnmatchedEnd(src)

\* The maximal runs of equal bytes of a sequence, in order, as records of
\* the byte b and the length n of the run.  A run starts at 1 and wherever
\* a byte differs from the one before it, and ends before the next start.
RunStarts(f) == { k \in 1..Len(f) : k = 1 \/ f[k] # f[k - 1] }

Runs(f) ==
  LET st == RunStarts(f)
      start(j) == CHOOSE k \in st : Cardinality({ x \in st : x < k }) = j - 1
      stop(k) == IF \E x \in st : x > k
                   THEN CHOOSE x \in st : x > k /\ \A y \in st : y > k => x <= y
                   ELSE Len(f) + 1
  IN [ j \in 1..Cardinality(st) |->
         [b |-> f[start(j)], n |-> stop(start(j)) - start(j)] ]

\* The number of indices of a sequence whose element satisfies P.
Count(sq, P(_)) == Cardinality({ k \in DOMAIN sq : P(sq[k]) })

FoldableIdents == {IDENT_INC_DP, IDENT_DEC_DP, IDENT_INC_DATA, IDENT_DEC_DATA}
FoldableOps == {"IncDP", "DecDP", "IncByteAtDP", "DecByteAtDP"}

\* The folded instruction the specification gives for a run of n bytes b.
FoldedOf(b, n) ==
  [ op |-> CASE b = IDENT_INC_DP -> "IncDP"
             [] b = IDENT_DEC_DP -> "DecDP"
             [] b = IDENT_INC_DATA -> "IncByteAtDP"
             [] b = IDENT_DEC_DATA -> "DecByteAtDP",
    n |-> n ]

\* The foldable runs of the source, as folded instructions.
FoldedRuns(src) ==
  LET r == SelectSeq(Runs(Filter(src)), LAMBDA x : x.b \in FoldableIdents)
  IN [ k \in 1..Len(r) |-> FoldedOf(r[k].b, r[k].n) ]

\* The number of maximal runs of the byte b in the filtered source.
RunCount(src, b) == Count(Runs(Filter(src)), LAMBDA x : x.b = b)

\* One interpreter step, n times: c + 1 with 255 + 1 = 0 (up) or c - 1 with
\* 0 - 1 = 255 (down).
RECURSIVE SingleSteps(_, _, _)
SingleSteps(c, n, up) ==
  IF n = 0 THEN c
  ELSE SingleSteps(IF up THEN (IF c = 255 THEN 0 ELSE c + 1)
                         ELSE (IF c = 0 THEN 255 ELSE c - 1), n - 1, up)

\* ------------------------------------------------------------- claims

\* C1: for every source and input, the interpreter on the source and the VM
\* on the compiled source write the same bytes.  (The code folds a run of
\* `,` into one ReadByte, so the VM reads fewer bytes: this fails.)
C1_SameOutput ==
  (cpc = "returned" /\ Finished(interpreter) /\ Finished(vm))
    => interpreter.writer = vm.writer

\* C2: in the bytecode compile returns for a balanced source, every JumpZero
\* at index i with offset f has a JumpNotZero with offset f - 2 at index
\* i + f - 1, every JumpNotZero at index k with offset g has a JumpZero with
\* offset g + 2 at index k - g - 1, and the pairing is one-to-one.
C2_JumpsPaired ==
  (cpc = "returned" /\ Balanced(code)) =>
    LET n == Len(instructions)
        JZ == { i \in 0..(n - 1) : instructions[i + 1].op = "JumpZero" }
        JNZ == { k \in 0..(n - 1) : instructions[k + 1].op = "JumpNotZero" }
    IN /\ \A i \in JZ :
            LET f == instructions[i + 1].n
            IN /\ i + f - 1 \in 0..(n - 1)
               /\ instructions[i + f] = JumpNotZero(f - 2)
       /\ \A k \in JNZ :
            LET g == instructions[k + 1].n
            IN /\ k - g - 1 \in 0..(n - 1)
               /\ instructions[k - g] = JumpZero(g + 2)
       /\ \A i1, i2 \in JZ :
            i1 # i2 => i1 + instructions[i1 + 1].n # i2 + instructions[i2 + 1].n
       /\ Cardinality(JZ) = Cardinality(JNZ)
       /\ Cardinality(JZ) = Count(code, LAMBDA b : b = IDENT_JUMP_ZERO)

\* C2 witness: compile returned nested loops, paired.
C2_Witness ==
  /\ cpc = "returned"
  /\ Balanced(code)
  /\ Len(instructions) = 4
  /\ instructions[1] = JumpZero(4)
  /\ instructions[2] = JumpZero(2)
  /\ instructions[3] = JumpNotZero(0)
  /\ instructions[4] = JumpNotZero(2)

\* C3: a source that is one foldable opcode repeated k >= 1 times compiles
\* to one folded instruction of count k; in general no two adjacent
\* instructions have the same foldable variant, and the folded instructions
\* are, in order, the maximal runs of the foldable opcodes with their lengths.
C3_Folding ==
  cpc = "returned" =>
    /\ \A k \in 1..(Len(instructions) - 1) :
         ~(/\ instructions[k].op \in FoldableOps
           /\ instructions[k].op = instructions[k + 1].op)
    /\ SelectSeq(instructions, LAMBDA x : x.op \in FoldableOps) = FoldedRuns(code)
    /\ \A o \in FoldableIdents :
         (Filter(code) # << >> /\ \A k \in DOMAIN Filter(code) : Filter(code)[k] = o)
           => instructions = << FoldedOf(o, Len(Filter(code))) >>

\* C3 witness: a run of three `-` interrupted by a comment was folded.
C3_Witness ==
  /\ cpc = "returned"
  /\ Len(code) = 4
  /\ Filter(code) = << IDENT_DEC_DATA, IDENT_DEC_DATA, IDENT_DEC_DATA >>
  /\ instructions = << DecByteAtDP(3) >>

\* C4: compile never returns for a source with an unmatched `[`.
C4_UnmatchedBeginFails == HasUnmatchedBegin(code) => cpc # "returned"

\* C4 witness: compile panicked on a source with an unmatched `[`.
C4_Witness ==
  /\ cpc = "panicked"
  /\ HasUnmatchedBegin(code)
  /\ Filter(code) = << IDENT_JUMP_ZERO, IDENT_JUMP_ZERO, IDENT_JUMP_NOT_ZERO >>

\* C5: compile never returns for a source with an unmatched `]`, and never
\* returns a vector that holds a JumpNotZeroPlaceholder.  (The code returns
\* the placeholder: this fails.)
C5_UnmatchedEndFails ==
  /\ HasUnmatchedEnd(code) => cpc # "returned"
  /\ cpc = "returned" =>
       \A k \in DOMAIN instructions : instructions[k] # JumpNotZeroPlaceholder

\* C6: Read, Write, LoopBegin and LoopEnd give one instruction per
\* occurrence: as many ReadByte as `,`, as many WriteByte as `.`, as many
\* JumpZero as `[`, as many JumpNotZero as `]`.  (The code folds `,` and
\* `.`: this fails.)
C6_OnePerOccurrence ==
  cpc = "returned" =>
    /\ Count(instructions, LAMBDA x : x.op = "ReadByte")
         = Count(code, LAMBDA b : b = IDENT_READ_BYTE)
    /\ Count(instructions, LAMBDA x : x.op = "WriteByte")
         = Count(code, LAMBDA b : b = IDENT_WRITE_BYTE)
    /\ Count(instructions, LAMBDA x : x.op = "JumpZero")
         = Count(code, LAMBDA b : b = IDENT_JUMP_ZERO)
    /\ Count(instructions, LAMBDA x : x.op = "JumpNotZero")
         = Count(code, LAMBDA b : b = IDENT_JUMP_NOT_ZERO)

\* C7: every maximal run of `,` compiles to exactly one ReadByte, so that a
\* VM run of a loop-free source that returns has read one byte per run; a
\* maximal run of `.` compiles to one WriteByte with the length of the run
\* (1 for a single `.`).
C7_ReadRunsFolded ==
  cpc = "returned" =>
    /\ Count(instructions, LAMBDA x : x.op = "ReadByte")
         = RunCount(code, IDENT_READ_BYTE)
    /\ \A k \in 1..(Len(instructions) - 1) :
         ~(instructions[k] = ReadByte /\ instructions[k + 1] = ReadByte)
    /\ SelectSeq(instructions, LAMBDA x : x.op = "WriteByte")
         = LET r == SelectSeq(Runs(Filter(code)), LAMBDA x : x.b = IDENT_WRITE_BYTE)
           IN [ k \in 1..Len(r) |-> WriteByte(r[k].n) ]
    /\ ( /\ vm.status = "returned_ok"
         /\ Count(code, LAMBDA b : b \in {IDENT_JUMP_ZERO, IDENT_JUMP_NOT_ZERO}) = 0 )
       => vm.reader = RunCount(code, IDENT_READ_BYTE)

\* C7 witness: the VM ran the compiled source of test_remove_repeating_reads
\* to its end and has read three bytes for its nine `,`.
C7_Witness ==
  /\ code = TestRepeatingReads
  /\ instructions = << ReadByte, WriteByte(1), ReadByte, WriteByte(1), ReadByte >>
  /\ vm.status = "returned_ok"
  /\ vm.reader = 3
  /\ vm.writer = << InputByte(1), InputByte(2) >>

\* As usize: dp < DATA_SIZE.
InTape(dp) == 0 <= dp /\ dp < DATA_SIZE

\* C8: DATA_SIZE times `>` from dp = 0 faults, DATA_SIZE - 1 times `>` does
\* not and leaves dp = DATA_SIZE - 1, and dp < DATA_SIZE in every state that
\* is not faulted, in the interpreter and in the VM.  (Without overflow
\* checks `<` at dp = 0 wraps dp to 2^64 - 1 and the run goes on: this fails.)
C8_TapeBoundary ==
  /\ code = Repeat(IDENT_INC_DP, DATA_SIZE) =>
       /\ interpreter.status \in {"running", "panicked"}
       /\ vm.status \in {"running", "panicked"}
  /\ code = Repeat(IDENT_INC_DP, DATA_SIZE - 1) =>
       /\ interpreter.status # "panicked"
       /\ vm.status # "panicked"
       /\ interpreter.status = "returned_ok" => interpreter.dp = DATA_SIZE - 1
       /\ vm.status = "returned_ok" => vm.dp = DATA_SIZE - 1
  /\ interpreter.status # "panicked" => InTape(interpreter.dp)
  /\ vm.status # "panicked" => InTape(vm.dp)

\* C9: the interpreter executing `<` at dp = 0, and the VM executing
\* DecDP(n) with n > dp, panic at that instruction: dp is never wrapped and
\* no later instruction runs.  (Without overflow checks dp wraps: this fails.)
C9_RetreatBelowZeroFaults ==
  [][ /\ ( /\ InterpFetch(IDENT_DEC_DP)
           /\ interpreter.dp = 0
           /\ interpreter' # interpreter )
        => interpreter'.status = "panicked"
      /\ ( /\ VMFetch("DecDP")
           /\ InTape(vm.dp)
           /\ instructions[vm.ip + 1].n > vm.dp
           /\ vm' # vm )
        => vm'.status = "panicked" ]_vars

\* C10: cells are 8 bits wide and wrap: a `-` on 0 leaves 255, a `+` on 255
\* leaves 0, and the VM's IncByteAtDP(n) / DecByteAtDP(n) leaves what n
\* single steps of the interpreter leave, for every n >= 1.
C10_CellsWrap ==
  [][ /\ ( /\ InterpFetch(IDENT_INC_DATA)
           /\ InTape(interpreter.dp)
           /\ interpreter' # interpreter )
        => Cell(interpreter'.data, interpreter.dp)
             = SingleSteps(Cell(interpreter.data, interpreter.dp), 1, TRUE)
      /\ ( /\ InterpFetch(IDENT_DEC_DATA)
           /\ InTape(interpreter.dp)
           /\ interpreter' # interpreter )
        => Cell(interpreter'.data, interpreter.dp)
             = SingleSteps(Cell(interpreter.data, interpreter.dp), 1, FALSE)
      /\ ( /\ VMFetch("IncByteAtDP")
           /\ InTape(vm.dp)
           /\ vm' # vm )
        => Cell(vm'.data, vm.dp)
             = SingleSteps(Cell(vm.data, vm.dp), instructions[vm.ip + 1].n, TRUE)
      /\ ( /\ VMFetch("DecByteAtDP")
           /\ InTape(vm.dp)
           /\ vm' # vm )
        => Cell(vm'.data, vm.dp)
             = SingleSteps(Cell(vm.data, vm.dp), instructions[vm.ip + 1].n, FALSE) ]_vars

\* C10 witness: the VM has executed an IncByteAtDP(n) with n >= 256 on a
\* cell that held 0, which now holds n - 256.
C10_Witness ==
  /\ cpc = "returned"
  /\ Len(instructions) = 1
  /\ instructions[1].op = "IncByteAtDP"
  /\ instructions[1].n >= 256
  /\ vm.ip = 1
  /\ Cell(vm.data, 0) = instructions[1].n - 256

\* A machine's step that executes the instruction it has fetched.
InterpSteps(b) == InterpFetch(b) /\ interpreter' # interpreter
VMSteps(op) == VMFetch(op) /\ vm' # vm

\* C11: a WriteByte(n) executed by the VM writes n bytes and, under OnWrite,
\* flushes n times, as the interpreter does for n `.` (one write and one
\* flush each).  (The VM flushes once after the n writes: this fails.)
C11_FoldedWriteFlushes ==
  [][ /\ ( InterpSteps(IDENT_WRITE_BYTE) /\ InTape(interpreter.dp) )
        => /\ Len(interpreter'.writer) = Len(interpreter.writer) + 1
           /\ flush = "OnWrite" => interpreter'.flushes = interpreter.flushes + 1
      /\ ( VMSteps("WriteByte") /\ InTape(vm.dp) )
        => /\ Len(vm'.writer) = Len(vm.writer) + instructions[vm.ip + 1].n
           /\ flush = "OnWrite"
                => vm'.flushes = vm.flushes + instructions[vm.ip + 1].n ]_vars

\* What C12 says of one machine.
FlushedAtEnd(m) ==
  /\ flush = "OnEnd" =>
       /\ m.status = "returned_ok" => m.flushes = 1 /\ m.flushed = Len(m.writer)
       /\ m.status # "returned_ok" => m.flushes = 0
  /\ flush = "Disabled" => m.flushes = 0

\* C12: under OnEnd a run that returns Ok has flushed exactly once, after its
\* last instruction (nothing is flushed while it runs, and the one flush
\* covers the whole output); under Disabled nothing is ever flushed.
C12_FlushAtEnd == FlushedAtEnd(interpreter) /\ FlushedAtEnd(vm)

\* C12 witness: both runs returned Ok under OnEnd after writing two bytes
\* or more, with one flush each.
C12_Witness ==
  /\ flush = "OnEnd"
  /\ interpreter.status = "returned_ok"
  /\ vm.status = "returned_ok"
  /\ Len(interpreter.writer) >= 2
  /\ Len(vm.writer) >= 2
  /\ interpreter.flushes = 1
  /\ vm.flushes = 1

\* C13: a Write appends the cell at dp to the output (n times for
\* WriteByte(n)), no other instruction touches the output, and under OnWrite
\* nothing written is left unflushed when the next instruction is
\* dispatched.
C13_WritesInOrderAndFlushed ==
  /\ [](flush = "OnWrite" =>
          /\ interpreter.flushed = Len(interpreter.writer)
          /\ vm.flushed = Len(vm.writer))
  /\ [][ /\ interpreter'.writer =
             IF InterpSteps(IDENT_WRITE_BYTE) /\ InTape(interpreter.dp)
               THEN Append(interpreter.writer, Cell(interpreter.data, interpreter.dp))
               ELSE interpreter.writer
         /\ vm'.writer =
             IF VMSteps("WriteByte") /\ InTape(vm.dp)
               THEN vm.writer \o [ k \in 1..instructions[vm.ip + 1].n |->
                                     Cell(vm.data, vm.dp) ]
               ELSE vm.writer ]_vars

\* C13 witness: under OnWrite the VM is about to dispatch the instruction
\* after a WriteByte(n), n >= 2, and all it wrote is flushed.
C13_Witness ==
  /\ flush = "OnWrite"
  /\ vm.status = "running"
  /\ vm.ip >= 1
  /\ vm.ip < Len(instructions)
  /\ instructions[vm.ip].op = "WriteByte"
  /\ instructions[vm.ip].n >= 2
  /\ Len(vm.writer) >= 2
  /\ vm.flushed = Len(vm.writer)

\* What C14 says of a step m -> n of one machine that executes a Read.
ReadsOneByte(m, n) ==
  IF m.reader < Len(input)
    THEN /\ n.reader = m.reader + 1
         /\ n.data = Store(m.data, m.dp, input[m.reader + 1])
         /\ n.status = "running"
    ELSE /\ n = [m EXCEPT !.status = "returned_err"]

\* C14: a Read consumes exactly one input byte into data[dp]; at the end of
\* the input it returns the error at once: no further instruction runs and
\* the output stays as it was.
C14_ReadExactlyOne ==
  [][ /\ ( InterpSteps(IDENT_READ_BYTE) /\ InTape(interpreter.dp) )
        => ReadsOneByte(interpreter, interpreter')
      /\ ( VMSteps("ReadByte") /\ InTape(vm.dp) )
        => ReadsOneByte(vm, vm')
      /\ interpreter.status = "returned_err" => interpreter' = interpreter
      /\ vm.status = "returned_err" => vm' = vm ]_vars

\* C14 witness: both runs read the whole input, wrote, and then returned
\* the error of a Read at the end of the input.
C14_Witness ==
  /\ interpreter.status = "returned_err"
  /\ vm.status = "returned_err"
  /\ Len(input) >= 1
  /\ interpreter.reader = Len(input)
  /\ vm.reader = Len(input)
  /\ Len(interpreter.writer) >= 1
  /\ Len(vm.writer) >= 1

\* The outcome of compile in the state: whether it panicked and, if not, the
\* vector it returned.
Outcome ==
  [ panicked |-> cpc = "panicked",
    instructions |-> IF cpc = "returned" THEN instructions ELSE << >> ]

\* The same of the evaluation of compile on a source under an order.
OutcomeOf(src, ord) ==
  LET r == Compile(src, ord)
  IN [ panicked |-> r.panicked,
       instructions |-> IF r.panicked THEN << >> ELSE r.instructions ]

\* C15: bytes that are no opcodes are comments: the outcome of compile is
\* that of compiling the source with these bytes removed, so it depends on
\* the opcode bytes only.
C15_CommentsIgnored ==
  cpc \in {"returned", "panicked"} => Outcome = OutcomeOf(Filter(code), order)

\* C15 witness: two `+` with a comment between them compiled to one
\* IncByteAtDP(2), followed by a `.`.
C15_Witness ==
  /\ cpc = "returned"
  /\ code = << IDENT_INC_DATA, 120, IDENT_INC_DATA, IDENT_WRITE_BYTE >>
  /\ instructions = << IncByteAtDP(2), WriteByte(1) >>

\* The opcode byte an instruction stands for.
IdentOf(x) ==
  CASE x.op = "IncDP" -> IDENT_INC_DP
    [] x.op = "DecDP" -> IDENT_DEC_DP
    [] x.op = "IncByteAtDP" -> IDENT_INC_DATA
    [] x.op = "DecByteAtDP" -> IDENT_DEC_DATA
    [] x.op = "WriteByte" -> IDENT_WRITE_BYTE
    [] x.op = "ReadByte" -> IDENT_READ_BYTE
    [] x.op \in {"JumpZero", "JumpZeroPlaceholder"} -> IDENT_JUMP_ZERO
    [] x.op \in {"JumpNotZero", "JumpNotZeroPlaceholder"} -> IDENT_JUMP_NOT_ZERO

\* The opcode bytes of a source in order, a run of equal bytes other than
\* brackets counted once.
RECURSIVE Squeeze(_)
Squeeze(f) ==
  IF Len(f) <= 1 THEN f
  ELSE IF f[1] = f[2] /\ f[1] \notin {IDENT_JUMP_ZERO, IDENT_JUMP_NOT_ZERO}
    THEN Squeeze(Tail(f))
  ELSE << f[1] >> \o Squeeze(Tail(f))

\* C16: the outcome of compile is the same under every iteration order of
\* IDENTS (it is the outcome under the order of insertion), and the
\* instructions returned stand in the order of the source.
C16_Deterministic ==
  cpc \in {"returned", "panicked"} =>
    /\ Outcome = OutcomeOf(code, InsertionOrder)
    /\ cpc = "returned" =>
         [ k \in 1..Len(instructions) |-> IdentOf(instructions[k]) ]
           = Squeeze(Filter(code))

\* C16 witness: a source of four different opcodes compiled, under an order
\* other than the order of insertion, to its four instructions in source
\* order.
C16_Witness ==
  /\ cpc = "returned"
  /\ order # InsertionOrder
  /\ code = << IDENT_READ_BYTE, IDENT_DEC_DATA, IDENT_INC_DP, IDENT_WRITE_BYTE >>
  /\ instructions = << ReadByte, DecByteAtDP(1), IncDP(1), WriteByte(1) >>

\* The cells of the tape the routine of the JIT has left non-zero.
JitTape == [ k \in { d \in DOMAIN jit.data : InTape(d) } |-> jit.data[k] ]

\* C17: the routine the JIT emits for a compiled program has the effect of
\* the VM on it: when it has returned, the VM returned Ok, and r12 stands at
\* the VM's dp, the tape holds the VM's cells, the same bytes were written
\* and as many bytes read.  (At the end of the input the routine goes on
\* where the VM returns the error, and a count is cut to 8 bits by
\* emit_inc_dp / emit_dec_dp: this fails.)
C17_JitAsVM ==
  (jit.status = "ret" /\ vm.status # "running") =>
    /\ vm.status = "returned_ok"
    /\ JitDp(jit) = vm.dp
    /\ JitTape = vm.data
    /\ jit.writer = vm.writer
    /\ jit.reader = vm.reader

\* C18: once JitCompiler::execute has returned, with Ok or with an error,
\* its region is not mapped.  (Nothing ever unmaps it: this fails.)
C18_RegionReleased ==
  jit.status \in {"returned_ok", "returned_err"} => ~jit.region.mapped

\* The whole code: the prologue, what the for loop emitted, the epilogue.
WholeCode(buf) ==
  /\ At(buf, 0, EmitStackSetup(jit.data_start))
  /\ At(buf, Len(buf) - Len(EmitStackTeardown), EmitStackTeardown)
  /\ jit.i = Len(instructions)

\* C19: the region is mapped readable and writable with the length of the
\* emitted buffer, then the whole code is copied, then it is made
\* executable only, then called: it is executed only when it is executable,
\* not writable, and holds the whole code, and it never changes once it is
\* executable.
C19_ActivationOrder ==
  /\ [](jit.region.mapped =>
          /\ Len(jit.region.bytes) = Len(jit.buf)
          /\ WholeCode(jit.buf))
  /\ [](jit.status = "mapped" => jit.region.prot = "rw")
  /\ [](jit.status \in {"native", "ret"} =>
          /\ jit.region.prot = "x"
          /\ jit.region.bytes = jit.buf)
  /\ [][ /\ jit.region.prot # "rw" /\ jit.region.mapped => jit'.region = jit.region
         /\ jit'.status = "native" => jit.status \in {"executable", "native"}
         /\ jit'.status = "executable" => jit.status \in {"copied", "executable"}
         /\ jit'.status = "copied" => jit.status \in {"mapped", "copied"}
         /\ jit'.status = "mapped" => jit.status \in {"emitted", "mapped"} ]_vars

\* C19 witness: the routine of a source with a loop is running in a region
\* that is executable and holds the whole buffer.
C19_Witness ==
  /\ jit.status = "native"
  /\ jit.steps >= 3
  /\ \E k \in DOMAIN instructions : instructions[k].op = "JumpZero"
  /\ jit.region.prot = "x"
  /\ jit.region.bytes = jit.buf
  /\ Len(jit.buf) > Len(EmitStackSetup(jit.data_start)) + Len(EmitStackTeardown)

\* The cells a transfer source sets up before its loop: data[0] = a and
\* data[1] = b.
TransferCells ==
  IF code = TransferFromOne THEN [a |-> 1, b |-> 0]
  ELSE LET a == (CHOOSE k \in 1..Len(code) : code[k] = IDENT_INC_DP) - 1
       IN [a |-> a, b |-> Len(code) - Len(TransferLoop) - 2 - a]

\* What C20 says of one machine that runs a program of len instructions
\* which ends with the transfer loop: it does not fail, it has no output,
\* it takes the step of `[`, five steps in each of a iterations and no more,
\* and it returns with dp = 0, data[0] = 0 and data[1] = (a + b) mod 256.
Transfers(m, len) ==
  LET a == TransferCells.a
      b == TransferCells.b
      steps == (len - Len(TransferLoop)) + 1 + 5 * a
  IN /\ m.status \in {"running", "returned_ok"}
     /\ m.writer = << >>
     /\ m.steps <= steps
     /\ m.status = "returned_ok" =>
          /\ m.steps = steps
          /\ m.dp = 0
          /\ Cell(m.data, 0) = 0
          /\ Cell(m.data, 1) = (a + b) % 256
          /\ DOMAIN m.data \subseteq {1}

\* C20: `[->+<]` started at dp = 0 with data[0] = a and data[1] = b halts
\* after a iterations with data[0] = 0 and data[1] = (a + b) mod 256 and no
\* output, in the interpreter and in the VM; so `++>+++<[->+<]` leaves 0 and
\* 5, and `+[->+<]` leaves 0 and 1.
C20_TransferLoop ==
  /\ cpc = "returned"
  /\ Transfers(interpreter, Len(code))
  /\ Transfers(vm, Len(instructions))

\* C20 witness: both machines have returned from `++>+++<[->+<]` with
\* data[1] = 5.
C20_Witness ==
  /\ code = Transfer(2, 3)
  /\ interpreter.status = "returned_ok"
  /\ vm.status = "returned_ok"
  /\ interpreter.data = (1 :> 5)
  /\ vm.data = (1 :> 5)

\* C20 witness of the wrap: both machines have returned from the loop
\* started with data[0] = 255 and data[1] = 3, with data[1] = 2.
C20_WitnessWrap ==
  /\ code = Transfer(255, 3)
  /\ interpreter.status = "returned_ok"
  /\ vm.status = "returned_ok"
  /\ interpreter.data = (1 :> 2)
  /\ vm.data = (1 :> 2)

\* [] and +[]
EmptyLoop == << IDENT_JUMP_ZERO, IDENT_JUMP_NOT_ZERO >>
SpinLoop == << IDENT_INC_DATA >> \o EmptyLoop

\* What C21 says of a machine that runs +[]: it stays in execute with no
\* output and dp = 0, and once the `+` is done data[0] = 1 is the only
\* non-zero cell and ip is at the loop.
Spins(m) ==
  /\ m.status = "running"
  /\ m.writer = << >>
  /\ m.flushes = 0
  /\ m.dp = 0
  /\ m.ip \in 0..2
  /\ m.data = IF m.steps = 0 THEN << >> ELSE (0 :> 1)
  /\ m.steps >= 1 => m.ip >= 1
  /\ m.steps >= 2 => m.ip = 2

\* C21: [] compiles to JumpZero(2), JumpNotZero(0).  A machine that runs +[]
\* never leaves execute, writes nothing and leaves the tape and dp alone:
\* each step at the `]` gives back the state it started from (one step
\* later).  With the cell 0 the step at the `[` of [] goes to the byte after
\* the `]` and changes nothing else.
C21_EmptyLoop ==
  /\ [](/\ code = EmptyLoop =>
             /\ cpc = "returned"
             /\ instructions = << JumpZero(2), JumpNotZero(0) >>
        /\ cpc = "returned" =>
             \A k \in 1..(Len(instructions) - 1) :
               (instructions[k].op = "JumpZero" /\ instructions[k + 1].op = "JumpNotZero")
                 => instructions[k] = JumpZero(2) /\ instructions[k + 1] = JumpNotZero(0)
        /\ code = SpinLoop =>
             /\ cpc = "returned"
             /\ instructions = << IncByteAtDP(1), JumpZero(2), JumpNotZero(0) >>
             /\ Spins(interpreter)
             /\ Spins(vm))
  /\ [][ /\ (code = SpinLoop /\ interpreter.steps >= 2 /\ interpreter' # interpreter)
           => interpreter' = [interpreter EXCEPT !.steps = interpreter.steps + 1]
         /\ (code = SpinLoop /\ vm.steps >= 2 /\ vm' # vm)
           => vm' = [vm EXCEPT !.steps = vm.steps + 1]
         /\ ( /\ InterpSteps(IDENT_JUMP_ZERO)
              /\ InTape(interpreter.dp)
              /\ Cell(interpreter.data, interpreter.dp) = 0
              /\ interpreter.ip + 2 <= Len(code)
              /\ code[interpreter.ip + 2] = IDENT_JUMP_NOT_ZERO )
           => interpreter' = [interpreter EXCEPT !.ip = interpreter.ip + 2,
                                                 !.steps = interpreter.steps + 1]
         /\ ( /\ VMSteps("JumpZero")
              /\ InTape(vm.dp)
              /\ Cell(vm.data, vm.dp) = 0
              /\ instructions[vm.ip + 1] = JumpZero(2) )
           => vm' = [vm EXCEPT !.ip = vm.ip + 2, !.steps = vm.steps + 1] ]_vars

\* C21 witness: both machines have spun in +[] for as long as they were
\* followed, and are still in it.
C21_Witness ==
  /\ code = SpinLoop
  /\ interpreter.status = "running"
  /\ vm.status = "running"
  /\ interpreter.steps = budget
  /\ vm.steps = budget
  /\ vm.ip = 2

\* C21 witness of the skip: both machines have skipped [] on a zero cell and
\* gone on to write it.
C21_WitnessSkip ==
  /\ code = EmptyLoop \o << IDENT_WRITE_BYTE >>
  /\ interpreter.status = "returned_ok"
  /\ vm.status = "returned_ok"
  /\ interpreter.steps = 2
  /\ vm.steps = 2
  /\ interpreter.writer = << 0 >>
  /\ vm.writer = << 0 >>

\* Bracket matching by nesting depth, for long sources: every `]` closes a
\* `[` before it and no `[` is left open.
WellNested(src) ==
  LET B == { k \in 1..Len(src) : src[k] \in {IDENT_JUMP_ZERO, IDENT_JUMP_NOT_ZERO} }
      depth(k) == Cardinality({ j \in B : j <= k /\ src[j] = IDENT_JUMP_ZERO })
                    - Cardinality({ j \in B : j <= k /\ src[j] = IDENT_JUMP_NOT_ZERO })
  IN /\ \A k \in B : depth(k) >= 0
     /\ depth(Len(src)) = 0

\* C22: for the bytecode compile returns for a balanced source, the for loop
\* of JitCompiler::execute never panics: the instruction at i + n - 1 of a
\* JumpZero(n) at i is JumpNotZero(n - 2), the instruction at i - n - 1 of a
\* JumpNotZero(n) at i is JumpZero(n + 2), and both indices are in bounds.
C22_CrossChecksHold ==
  (cpc = "returned" /\ WellNested(code)) =>
    /\ jit.status # "panicked"
    /\ \A i \in 0..(Len(instructions) - 1) :
         LET x == instructions[i + 1]
         IN /\ x.op = "JumpZero" =>
                 /\ i + x.n - 1 \in 0..(Len(instructions) - 1)
                 /\ instructions[i + x.n] = JumpNotZero(x.n - 2)
            /\ x.op = "JumpNotZero" =>
                 /\ i - x.n - 1 \in 0..(Len(instructions) - 1)
                 /\ instructions[i - x.n] = JumpZero(x.n + 2)
            /\ ~IsPlaceholder(x)

\* C22 witness: the for loop has gone through the bytecode of a source with
\* a loop inside a loop.
C22_Witness ==
  /\ cpc = "returned"
  /\ WellNested(code)
  /\ jit.status = "emitted"
  /\ \E i \in 1..(Len(instructions) - 1) :
       instructions[i].op = "JumpZero" /\ instructions[i + 1].op = "JumpZero"

\* The native length of the first k instructions of the bytecode, and the
\* offset in the buffer of the first native byte of instruction k (0-based;
\* with k = Len(instructions), of the epilogue).
RECURSIVE NativeLenUpTo(_)
NativeLenUpTo(k) ==
  IF k = 0 THEN 0
  ELSE NativeLenUpTo(k - 1) + Len(MeasuredBytes(instructions[k]))

NativeOffset(k) == Len(EmitStackSetup(jit.data_start)) + NativeLenUpTo(k)

\* C23: in the buffer emitted for the bytecode of a balanced source, the
\* code of instruction k starts at the sum of the native lengths before it;
\* the je of a JumpZero(n) at index i has the displacement that is the
\* native length of the instructions i + 1 .. i + n - 1 and so targets the
\* first byte after the code of its JumpNotZero (at index i + n - 1); the
\* jne of a JumpNotZero(n) at index i has the displacement -(native length
\* of the loop body + 11) and so targets the first byte after the code of
\* its JumpZero (at index i - n - 1).
C23_JumpTargets ==
  (cpc = "returned" /\ WellNested(code) /\ jit.status # "new") =>
    /\ Len(jit.buf) =
         NativeOffset(jit.i) + (IF jit.status = "emit" THEN 0 ELSE Len(EmitStackTeardown))
    /\ \A i \in 0..(jit.i - 1) :
         LET x == instructions[i + 1]
             d == Decode(jit.buf, NativeOffset(i))
         IN /\ x.op = "JumpZero" =>
                 /\ d.kind = "je"
                 /\ d.imm = NativeOffset(i + x.n) - NativeOffset(i + 1)
                 /\ NativeOffset(i) + d.len + d.imm = NativeOffset(i + x.n)
            /\ x.op = "JumpNotZero" =>
                 /\ d.kind = "jne"
                 /\ d.imm = 0 - ((NativeOffset(i) - NativeOffset(i - x.n)) + 11)
                 /\ NativeOffset(i) + d.len + d.imm = NativeOffset(i - x.n)

\* C23 witness: the buffer of a source with a loop inside a loop is emitted,
\* and the je of the outer loop jumps over more than the inner loop.
C23_Witness ==
  /\ cpc = "returned"
  /\ WellNested(code)
  /\ jit.status = "emitted"
  /\ \E i \in 1..(Len(instructions) - 1) :
       /\ instructions[i].op = "JumpZero"
       /\ instructions[i + 1].op = "JumpZero"
       /\ Decode(jit.buf, NativeOffset(i - 1)).imm
            > Decode(jit.buf, NativeOffset(i)).imm + 22

\* C24: get_instruction_bytes of an instruction returns the number of bytes
\* the for loop of execute appends for it (11 for a jump, whatever its
\* displacement), leaves the buffer as it was and leaves writing resumed;
\* writing is never suspended between two steps of execute.
C24_MeasurementExact ==
  /\ [](~jit.suspend_write)
  /\ [](( /\ jit.status = "emit"
          /\ jit.i < Len(instructions)
          /\ ~JitEmitPanics(instructions, jit.i) ) =>
         LET x == instructions[jit.i + 1]
             g == GetInstructionBytes(JitMachineCode, x)
             emitted == JitEmitInstruction(JitMachineCode, instructions, jit.i)
         IN /\ g.mc = JitMachineCode
            /\ g.len = Len(emitted.buf) - Len(jit.buf)
            /\ SubSeq(emitted.buf, 1, Len(jit.buf)) = jit.buf
            /\ x.op \in {"JumpZero", "JumpNotZero"} => g.len = 11)
  /\ [][ (jit.status = "emit" /\ jit'.status = "emit" /\ jit' # jit) =>
           /\ jit'.i = jit.i + 1
           /\ Len(jit'.buf) - Len(jit.buf)
                = GetInstructionBytes(JitMachineCode, instructions[jit.i + 1]).len ]_vars

\* C24 witness: the for loop has emitted a JumpNotZero whose displacement is
\* not the 0 it was measured with, after measuring the body of its loop.
C24_Witness ==
  /\ jit.status = "emit"
  /\ jit.i >= 3
  /\ instructions[jit.i].op = "JumpNotZero"
  /\ instructions[jit.i].n >= 1
  /\ Decode(jit.buf, Len(jit.buf) - 11).kind = "jne"
  /\ Decode(jit.buf, Len(jit.buf) - 11).imm < 0 - 11
  /\ ~jit.suspend_write

\* What C25 says of the bytes the for loop appended for IncDP(n) or
\* DecDP(n): they are one native instruction of this kind that moves r12 by
\* n, in the form the size of n asks for.
MovesBy(before, after, kind, n) ==
  LET d == Decode(after, Len(before))
  IN /\ d.kind = kind
     /\ d.imm = n
     /\ d.len = Len(after) - Len(before)
     /\ d.len = IF n = 1 THEN 3 ELSE IF n <= 127 THEN 4 ELSE 7

\* C25: for IncDP(n) / DecDP(n), n >= 1, the JIT emits one instruction that
\* moves r12 by n: inc / dec for n = 1, add / sub with an 8-bit immediate
\* for 2 <= n <= 127, and with a 32-bit immediate equal to n for larger n,
\* also from 256 on.  (emit_inc_dp / emit_dec_dp cut n to 8 bits first: for
\* n = 256 nothing is emitted.  This fails.)
C25_PointerMoves ==
  [][ (jit.status = "emit" /\ jit'.status = "emit" /\ jit' # jit) =>
        LET x == instructions[jit.i + 1]
        IN /\ (x.op = "IncDP" /\ x.n >= 1) => MovesBy(jit.buf, jit'.buf, "add_r12", x.n)
           /\ (x.op = "DecDP" /\ x.n >= 1) => MovesBy(jit.buf, jit'.buf, "sub_r12", x.n) ]_vars

\* The offsets of the jumps of the bytecode.
JumpOffsets(op) ==
  { instructions[k].n : k \in { j \in DOMAIN instructions : instructions[j].op = op } }

\* C26 as stated: in the bytecode of a balanced source every JumpZero(off)
\* and every JumpNotZero(off) has off >= 2.  (The JumpNotZero of a loop with
\* n instructions in its body has offset n: 0 for [].  This fails.)
C26_OffsetsAtLeastTwo ==
  (cpc = "returned" /\ Balanced(code)) =>
    /\ \A off \in JumpOffsets("JumpZero") : off >= 2
    /\ \A off \in JumpOffsets("JumpNotZero") : off >= 2

\* C26 amended: in the bytecode of a balanced source every JumpZero(off) has
\* off >= 2 and every JumpNotZero(off) has off >= 0.
C26_OffsetBounds ==
  (cpc = "returned" /\ Balanced(code)) =>
    /\ \A off \in JumpOffsets("JumpZero") : off >= 2
    /\ \A off \in JumpOffsets("JumpNotZero") : off >= 0

\* C26 witness: compile returned the bytecode of a balanced source with an
\* empty loop and a loop of one instruction: offsets 0 and 1.
C26_Witness ==
  /\ cpc = "returned"
  /\ Balanced(code)
  /\ JumpOffsets("JumpNotZero") \in { {0}, {1} }
  /\ JumpOffsets("JumpZero") \in { {2}, {3} }
  /\ Len(code) = 4

\* The nesting depth over the bytes of indices a..b of a source: the number
\* of `[` less the number of `]` among them.
Depth(src, a, b) ==
  Cardinality({ k \in a..b : src[k + 1] = IDENT_JUMP_ZERO })
    - Cardinality({ k \in a..b : src[k + 1] = IDENT_JUMP_NOT_ZERO })

\* The index of the `]` that matches the `[` at index ip, and of the `[`
\* that matches the `]` at index ip: the nearest at which the depth is back
\* to 0; -1 where there is none.
MatchingEnd(src, ip) ==
  LET J == { j \in (ip + 1)..(Len(src) - 1) : Depth(src, ip, j) = 0 }
  IN IF J = {} THEN -1 ELSE CHOOSE j \in J : \A k \in J : j <= k

MatchingBegin(src, ip) ==
  LET J == { j \in 0..(ip - 1) : Depth(src, j, ip) = 0 }
  IN IF J = {} THEN -1 ELSE CHOOSE j \in J : \A k \in J : j >= k

\* The interpreter after a step that only moves ip to `to`.
InterpAt(to) ==
  [interpreter EXCEPT !.ip = to, !.steps = interpreter.steps + 1]

C27_WitnessSkip ==
  /\ code = SkippedLoops
  /\ interpreter.status = "returned_ok"
  /\ interpreter.steps = 2
  /\ interpreter.writer = << 0 >>

\* The bytecode as the brackets it stands for.
BytecodeBrackets == [ k \in 1..Len(instructions) |-> IdentOf(instructions[k]) ]

\* The VM after a step that only moves ip to `to`.
VMAt(to) == [vm EXCEPT !.ip = to, !.steps = vm.steps + 1]

\* C28: while the VM runs the bytecode of a balanced source, 0 <= ip <=
\* len(instructions); a taken JumpZero lands on the index after the
\* JumpNotZero that matches it by nesting depth, a taken JumpNotZero on the
\* index after its JumpZero, a jump not taken moves ip by one, and nothing
\* else changes; execute returns Ok only from ip = len(instructions), and
\* at ip = len(instructions) it does nothing but return.
C28_VMJumps ==
  /\ []((cpc = "returned" /\ WellNested(code)) =>
          /\ 0 <= vm.ip
          /\ vm.ip <= Len(instructions)
          /\ vm.status = "returned_ok" => vm.ip = Len(instructions))
  /\ [][ WellNested(code) =>
           /\ (VMSteps("JumpZero") /\ InTape(vm.dp)) =>
                LET j == MatchingEnd(BytecodeBrackets, vm.ip)
                IN /\ j >= 0
                   /\ vm' = VMAt(IF Cell(vm.data, vm.dp) = 0 THEN j + 1 ELSE vm.ip + 1)
           /\ (VMSteps("JumpNotZero") /\ InTape(vm.dp)) =>
                LET j == MatchingBegin(BytecodeBrackets, vm.ip)
                IN /\ j >= 0
                   /\ vm' = VMAt(IF Cell(vm.data, vm.dp) # 0 THEN j + 1 ELSE vm.ip + 1)
           /\ (vm' # vm /\ vm.ip = Len(instructions)) =>
                /\ vm'.status \in {"returned_ok", "returned_err"}
                /\ vm'.ip = vm.ip
           /\ (vm' # vm /\ vm.ip < Len(instructions)) => vm'.status # "returned_ok" ]_vars

\* C28 witness: the VM has returned from the bytecode of ++[>+[-]<-], where
\* the outer JumpNotZero went back over the inner loop, with ip at the end.
C28_Witness ==
  /\ code = LoopInLoop
  /\ Len(instructions) = 10
  /\ vm.status = "returned_ok"
  /\ vm.ip = 10
  /\ vm.steps = 1 + 1 + 2 * 8
  /\ vm.data = << >>

\* Whether the routine of the JIT has been entered.
JitExecuted ==
  \/ jit.status \in {"native", "ret", "crashed", "returned_ok"}
  \/ jit.steps > 0

\* C29: when mmap or mprotect fails, JitCompiler::execute returns the error
\* and the routine is never entered: it has executed nothing, read nothing
\* and written nothing, and execute stays returned.  The routine is entered
\* only in a region that was mapped and then made executable.
C29_NoExecutionAfterFailure ==
  /\ [](jit.status = "returned_err" =>
          /\ ~JitExecuted
          /\ jit.reader = 0
          /\ jit.writer = << >>
          /\ jit.data = << >>
          /\ jit.region.prot # "x")
  /\ [](JitExecuted => jit.region.mapped /\ jit.region.prot = "x")
  /\ [][ /\ jit.status = "returned_err" => jit' = jit
         /\ (jit.status = "emitted" /\ jit' # jit) =>
              \/ jit'.status = "mapped" /\ jit'.region.mapped
              \/ jit' = [jit EXCEPT !.status = "returned_err"]
         /\ (jit.status = "copied" /\ jit' # jit) =>
              \/ jit'.status = "executable" /\ jit'.region.prot = "x"
              \/ jit' = [jit EXCEPT !.status = "returned_err"] ]_vars

\* C29 witness: mprotect failed on the region that holds the code of a
\* source with a loop, and execute has returned the error.
C29_Witness ==
  /\ jit.status = "returned_err"
  /\ jit.region.mapped
  /\ jit.region.prot = "rw"
  /\ jit.region.bytes = jit.buf
  /\ \E k \in DOMAIN instructions : instructions[k].op = "JumpZero"
  /\ jit.steps = 0

\* C29 witness of mmap: mmap failed and execute has returned the error with
\* nothing mapped.
C29_WitnessMmap ==
  /\ jit.status = "returned_err"
  /\ ~jit.region.mapped
  /\ Len(jit.buf) > Len(EmitStackSetup(jit.data_start)) + Len(EmitStackTeardown)
  /\ jit.steps = 0

\* Whether sequence a is the start of sequence b.
IsPrefix(a, b) == Len(a) <= Len(b) /\ SubSeq(b, 1, Len(a)) = a

\* What C30 says of a step m -> n of one machine whose instruction makes
\* `calls` calls of the writer (`writes` of them write_all) and reads one
\* byte if `reads`.
ErrorsEndTheRun(m, n, calls, reads) ==
  \* once execute has returned an error nothing happens any more
  /\ m.status = "returned_err" => n = m
  \* the step that returns the error completes no instruction and no flush:
  \* at most the bytes written before the failing call are added
  /\ (m.status = "running" /\ n.status = "returned_err") =>
       /\ n = [m EXCEPT !.status = "returned_err", !.writer = n.writer]
       /\ IsPrefix(m.writer, n.writer)
       /\ n.writer # m.writer => WriterCalls(n) = sink
  \* a call of the writer that fails, and a read at the end of the input,
  \* end the run in this very step
  /\ (n # m /\ sink # NoFail /\ WriterCalls(m) + calls > sink) =>
       n.status = "returned_err"
  /\ (n # m /\ reads /\ m.reader >= Len(input)) =>
       n = [m EXCEPT !.status = "returned_err"]

\* The calls of the writer the interpreter's / the VM's next step makes.
InterpCalls ==
  IF interpreter.ip >= Len(code)
    THEN IF flush = "OnEnd" THEN 1 ELSE 0
  ELSE IF code[interpreter.ip + 1] = IDENT_WRITE_BYTE
    THEN IF flush = "OnWrite" THEN 2 ELSE 1
  ELSE 0

VMCalls ==
  IF vm.ip >= Len(instructions)
    THEN IF flush = "OnEnd" THEN 1 ELSE 0
  ELSE IF instructions[vm.ip + 1].op = "WriteByte"
    THEN instructions[vm.ip + 1].n + (IF flush = "OnWrite" THEN 1 ELSE 0)
  ELSE 0

\* C30: when a read, a write or a flush fails, execute returns the error in
\* that step: no later instruction runs, no byte is written after the call
\* that failed, and the flush at the end under OnEnd is not made.
C30_FirstErrorReturned ==
  /\ [](sink # NoFail =>
          /\ WriterCalls(interpreter) <= sink
          /\ WriterCalls(vm) <= sink)
  /\ [](flush = "OnEnd" =>
          /\ interpreter.status = "returned_err" => interpreter.flushes = 0
          /\ vm.status = "returned_err" => vm.flushes = 0)
  /\ [][ /\ ErrorsEndTheRun(interpreter, interpreter', InterpCalls,
                            /\ interpreter.ip < Len(code)
                            /\ code[interpreter.ip + 1] = IDENT_READ_BYTE)
         /\ ErrorsEndTheRun(vm, vm', VMCalls,
                            /\ vm.ip < Len(instructions)
                            /\ instructions[vm.ip + 1].op = "ReadByte") ]_vars

\* C30 witness: under OnWrite the writer failed at the second write of a
\* WriteByte(3) of the VM and at the flush after the first `.` of the
\* interpreter; both runs returned the error with one byte written.
C30_Witness ==
  /\ flush = "OnWrite"
  /\ sink = 1
  /\ instructions = << WriteByte(3) >>
  /\ interpreter.status = "returned_err"
  /\ interpreter.writer = << 0 >>
  /\ interpreter.flushes = 0
  /\ interpreter.ip = 0
  /\ vm.status = "returned_err"
  /\ vm.writer = << 0 >>
  /\ vm.ip = 0

\* C30 witness of the end: under OnEnd both runs wrote their bytes and the
\* flush at the end failed.
C30_WitnessEnd ==
  /\ flush = "OnEnd"
  /\ sink = 2
  /\ interpreter.status = "returned_err"
  /\ vm.status = "returned_err"
  /\ interpreter.ip = Len(code)
  /\ vm.ip = Len(instructions)
  /\ Len(interpreter.writer) = 2
  /\ Len(vm.writer) = 2
  /\ interpreter.flushes = 0
  /\ vm.flushes = 0

\* Whether two tapes hold the same byte in every cell but the one at dp.
SameBut(before, after, dp) ==
  \A k \in (DOMAIN before \cup DOMAIN after) \ {dp} :
    Cell(before, k) = Cell(after, k)

\* Whether a step of the VM leaves the fields named in `fields` as they are.
VMKeeps(fields) ==
  /\ "dp" \in fields => vm'.dp = vm.dp
  /\ "data" \in fields => vm'.data = vm.data
  /\ "reader" \in fields => vm'.reader = vm.reader
  /\ "writer" \in fields =>
       /\ vm'.writer = vm.writer
       /\ vm'.flushes = vm.flushes
       /\ vm'.flushed = vm.flushed

\* C31: each instruction of the VM changes only what it names. IncDP and
\* DecDP change dp (and ip) and neither the tape nor the reader nor the
\* writer; IncByteAtDP, DecByteAtDP and ReadByte change no cell but the one
\* at dp, and neither dp nor the writer (only ReadByte takes from the
\* reader); WriteByte leaves the tape, dp and the reader alone and what was
\* written before it stays a prefix of what is written after it, every byte
\* added being the cell at dp; JumpZero and JumpNotZero, taken or not,
\* change ip only. No step changes the bytecode.
C31_FrameEffects ==
  [][ /\ instructions' = instructions
      /\ (VMSteps("IncDP") \/ VMSteps("DecDP")) =>
           VMKeeps({"data", "reader", "writer"})
      /\ (VMSteps("IncByteAtDP") \/ VMSteps("DecByteAtDP")) =>
           /\ VMKeeps({"dp", "reader", "writer"})
           /\ SameBut(vm.data, vm'.data, vm.dp)
      /\ VMSteps("ReadByte") =>
           /\ VMKeeps({"dp", "writer"})
           /\ SameBut(vm.data, vm'.data, vm.dp)
           /\ vm'.reader \in {vm.reader, vm.reader + 1}
      /\ VMSteps("WriteByte") =>
           /\ VMKeeps({"dp", "data", "reader"})
           /\ IsPrefix(vm.writer, vm'.writer)
           /\ \A k \in Len(vm.writer) + 1..Len(vm'.writer) :
                vm'.writer[k] = Cell(vm.data, vm.dp)
      /\ (VMSteps("JumpZero") \/ VMSteps("JumpNotZero")) =>
           VMKeeps({"dp", "data", "reader", "writer"}) ]_vars

\* C31 witness: the VM has run >+. to its end: cell 1 holds 1 and was
\* written, cell 0 is as it was, dp is where IncDP left it.
C31_Witness ==
  /\ code = << IDENT_INC_DP, IDENT_INC_DATA, IDENT_WRITE_BYTE >>
  /\ instructions = << IncDP(1), IncByteAtDP(1), WriteByte(1) >>
  /\ vm.status = "returned_ok"
  /\ vm.ip = 3
  /\ vm.dp = 1
  /\ Cell(vm.data, 0) = 0
  /\ Cell(vm.data, 1) = 1
  /\ vm.writer = << 1 >>

\* C31 witness: the VM is back at the head of the outer loop of ++[>+[-]<-]
\* after its first round: the taken JumpNotZero moved ip only, dp is back
\* at 0, cell 0 was counted down once and cell 1 emptied by the inner loop.
C31_WitnessLoop ==
  /\ code = LoopInLoop
  /\ vm.status = "running"
  /\ vm.ip = 2
  /\ vm.steps = 10
  /\ vm.dp = 0
  /\ Cell(vm.data, 0) = 1
  /\ Cell(vm.data, 1) = 0
  /\ vm.writer = << >>

\* Where compile has left its loops.
CompileEnded == cpc \in {"returned", "panicked"}

\* C32: compile terminates for every source. Each iteration of the first
\* loop moves i forward (a call of push_instruction moves it, or the guard
\* after the calls adds one) and not past the end of the source; each iteration
\* of the second and of the third loop moves i by one and keeps the length
\* of the instruction vector, the scan of the second loop ending at an
\* index from i to that length; a loop is left with i at its bound, and the
\* third loop otherwise by a panic; so compile returns or panics in the end.
C32_CompileTerminates ==
  /\ []((cpc = "fold" /\ ci < Len(code)) =>
          LET st == [i |-> ci, instructions |-> instructions]
          IN /\ FoldRound(code, order, st).i > ci
             /\ \/ ForIdents(code, order, 1, st).i > ci
                \/ FoldRound(code, order, st).i = ci + 1)
  /\ [][ /\ (cpc = "fold" /\ cpc' = "fold") =>
              /\ ci' > ci
              /\ ci' <= Len(code)
         /\ (cpc \in {"link_forward", "link_backward"} /\ cpc' = cpc) =>
              /\ ci' = ci + 1
              /\ ci' <= Len(instructions)
              /\ Len(instructions') = Len(instructions)
         /\ (cpc = "link_forward" /\ cpc' = cpc) =>
              /\ MatchScan(instructions, ci, 0) >= ci
              /\ MatchScan(instructions, ci, 0) <= Len(instructions)
         /\ (cpc = "fold" /\ cpc' # cpc) =>
              /\ ci = Len(code)
              /\ cpc' = "link_forward"
         /\ (cpc = "link_forward" /\ cpc' # cpc) =>
              /\ ci = Len(instructions)
              /\ cpc' = "link_backward"
         /\ (cpc = "link_backward" /\ cpc' = "returned") => ci = Len(instructions)
         /\ CompileEnded => UNCHANGED vars ]_vars
  /\ <>CompileEnded

\* C32 witness: compile has returned from a source of the longest length
\* that is [+] with a comment byte before it: the first loop skipped the
\* comment, the second linked the JumpZero and the third its JumpNotZero.
C32_Witness ==
  /\ Len(code) = MaxSrcLen
  /\ code[1] = 120
  /\ Filter(code) = << IDENT_JUMP_ZERO, IDENT_INC_DATA, IDENT_JUMP_NOT_ZERO >>
  /\ cpc = "returned"
  /\ ci = 3
  /\ instructions = << JumpZero(3), IncByteAtDP(1), JumpNotZero(1) >>

\* C32 witness: compile has ended in a panic, in the third loop, on a source
\* of `[` alone.
C32_WitnessPanic ==
  /\ Len(code) = MaxSrcLen
  /\ \A k \in 1..Len(code) : code[k] = IDENT_JUMP_ZERO
  /\ cpc = "panicked"

====
